---- MODULE Spec2Model ----
(***************************************************************************)
(* Spike detection and refinement engine of Auto_Navigation_for_DBS:       *)
(* SpikeDetector (spike_detector.py) -- RMS threshold detection, greedy    *)
(* refractory filter, waveform extraction -- and the per-subject loop      *)
(* process_all_samples that applies them to every sample of a subject.     *)
(*                                                                         *)
(* Representation.  Signal samples are integers.  Python indices are       *)
(* 0-based; a signal is a TLA+ sequence, so signal[i] of the code is       *)
(* signal[i + 1] here, while every index stored in an event is the code's  *)
(* 0-based index.  Times (time_s, the bounds of the refractory windows,    *)
(* the waveform time axis) and the threshold are IEEE-754 doubles, as in   *)
(* the code, computed with the rounding of each operation of the code.     *)
(***************************************************************************)
EXTENDS Integers, Sequences, FiniteSets, TLC

\* ------------------------------------------------------------------ bounds
MaxLen == 6          \* longest signal
MaxSpikes == 4       \* longest candidate list handed to the filter alone
MaxTime == 5         \* candidate times handed to the filter alone: up to
                     \* 2 * MaxTime ms
MaxWin == 2          \* largest before_s / after_s handed to the filter
                     \* alone, in ms

SampleValues == {-2, -1, 0, 1}
Rates == {500, 1000}
NegativeRates == {-1000}
Multipliers == {1, 2}

Signals == UNION {[1..n -> SampleValues] : n \in 0..MaxLen}

\* ------------------------------------------------- binary64 arithmetic
\* The code computes times and the threshold in IEEE-754 doubles.  A double
\* is held here as its exact value: [neg, man, exp] stands for
\* (-1)^neg * man * 2^exp, where man is an odd integer below 2^53 (or 0, with
\* exp = 0), written as the sequence of its base-4096 digits, least
\* significant first, without a leading zero digit.  The operations round to
\* nearest, ties to even, as the hardware does; the values of the model stay
\* far from the overflow and subnormal ranges.
LimbBits == 12
LimbBase == 4096
MantissaBits == 53

Pow2(k) == 2^k

Abs(n) == IF n < 0 THEN -n ELSE n

\* the number of bits of a digit n, 0 <= n < 4096
IntBitLen(n) ==
  IF n < 64
  THEN (IF n < 8
        THEN (IF n < 2 THEN n ELSE IF n < 4 THEN 2 ELSE 3)
        ELSE IF n < 16 THEN 4 ELSE IF n < 32 THEN 5 ELSE 6)
  ELSE IF n < 512
  THEN (IF n < 128 THEN 7 ELSE IF n < 256 THEN 8 ELSE 9)
  ELSE IF n < 1024 THEN 10 ELSE IF n < 2048 THEN 11 ELSE 12

RECURSIVE IntTrailingZeros(_)
IntTrailingZeros(n) == IF n % 2 = 1 THEN 0 ELSE 1 + IntTrailingZeros(n \div 2)

RECURSIVE Gcd(_, _)
Gcd(a, b) == IF b = 0 THEN a ELSE Gcd(b, a % b)

\* n is a power of two, for n > 0
IsPow2(n) == n = Pow2(IntTrailingZeros(n))

\* floor(sqrt(n)), known to lie in lo..hi
RECURSIVE IntSqrtBetween(_, _, _)
IntSqrtBetween(n, lo, hi) ==
  IF lo = hi THEN lo
  ELSE LET mid == (lo + hi + 1) \div 2
       IN IF mid * mid <= n THEN IntSqrtBetween(n, mid, hi)
          ELSE IntSqrtBetween(n, lo, mid - 1)

RECURSIVE BigTrim(_)
BigTrim(a) ==
  IF a = <<>> THEN a
  ELSE IF a[Len(a)] = 0 THEN BigTrim(SubSeq(a, 1, Len(a) - 1))
  ELSE a

RECURSIVE BigFromInt(_)
BigFromInt(n) ==
  IF n = 0 THEN <<>> ELSE <<n % LimbBase>> \o BigFromInt(n \div LimbBase)

BigLimb(a, i) == IF i >= 1 /\ i <= Len(a) THEN a[i] ELSE 0

BigBitLen(a) ==
  IF a = <<>> THEN 0 ELSE LimbBits * (Len(a) - 1) + IntBitLen(a[Len(a)])

\* a * 2^k
BigShl(a, k) ==
  LET q == k \div LimbBits
      r == k % LimbBits
      lo == Pow2(r)
      hi == Pow2(LimbBits - r)
  IN IF k = 0 \/ a = <<>> THEN a
     ELSE IF r = 0 THEN [i \in 1..(Len(a) + q) |-> IF i <= q THEN 0 ELSE a[i - q]]
     ELSE BigTrim([i \in 1..(Len(a) + q + 1) |->
                     ((BigLimb(a, i - q) % hi) * lo)
                       + (BigLimb(a, i - q - 1) \div hi)])

\* a \div 2^k
BigShr(a, k) ==
  LET q == k \div LimbBits
      r == k % LimbBits
      lo == Pow2(r)
      hi == Pow2(LimbBits - r)
  IN IF k = 0 THEN a
     ELSE IF Len(a) <= q THEN <<>>
     ELSE IF r = 0 THEN SubSeq(a, q + 1, Len(a))
     ELSE BigTrim([i \in 1..(Len(a) - q) |->
                     (a[i + q] \div lo) + (BigLimb(a, i + q + 1) % lo) * hi])

\* bit p of a, bit 0 being the lowest
BigBit(a, p) == (BigLimb(a, p \div LimbBits + 1) \div Pow2(p % LimbBits)) % 2

\* a % 2^k
BigLowBits(a, k) ==
  LET q == k \div LimbBits
      r == k % LimbBits
  IN BigTrim([i \in 1..(q + 1) |->
                IF i <= q THEN BigLimb(a, i) ELSE BigLimb(a, i) % Pow2(r)])

\* the digits i and below of a and b compared, from the top
RECURSIVE BigCmpFrom(_, _, _)
BigCmpFrom(a, b, i) ==
  IF i = 0 THEN 0
  ELSE IF a[i] # b[i] THEN (IF a[i] < b[i] THEN -1 ELSE 1)
  ELSE BigCmpFrom(a, b, i - 1)

\* -1, 0 or 1 as a is below, equal to or above b
BigCmp(a, b) ==
  IF Len(a) # Len(b) THEN (IF Len(a) < Len(b) THEN -1 ELSE 1)
  ELSE BigCmpFrom(a, b, Len(a))

RECURSIVE BigAddFrom(_, _, _, _)
BigAddFrom(a, b, i, carry) ==
  IF i > Len(a) /\ i > Len(b)
  THEN (IF carry = 0 THEN <<>> ELSE <<carry>>)
  ELSE LET s == BigLimb(a, i) + BigLimb(b, i) + carry
       IN <<s % LimbBase>> \o BigAddFrom(a, b, i + 1, s \div LimbBase)

BigAdd(a, b) == BigAddFrom(a, b, 1, 0)

RECURSIVE BigSubFrom(_, _, _, _)
BigSubFrom(a, b, i, borrow) ==
  IF i > Len(a) THEN <<>>
  ELSE LET s == BigLimb(a, i) - BigLimb(b, i) - borrow
       IN <<s % LimbBase>> \o BigSubFrom(a, b, i + 1, IF s < 0 THEN 1 ELSE 0)

\* a - b, for a >= b
BigSub(a, b) == BigTrim(BigSubFrom(a, b, 1, 0))

RECURSIVE BigMulFrom(_, _, _, _)
BigMulFrom(a, c, i, carry) ==
  IF i > Len(a) THEN BigFromInt(carry)
  ELSE LET s == a[i] * c + carry
       IN <<s % LimbBase>> \o BigMulFrom(a, c, i + 1, s \div LimbBase)

\* a * c, for 0 <= c < 2^19
BigMulSmall(a, c) == BigTrim(BigMulFrom(a, c, 1, 0))

RECURSIVE BigLowestDigit(_, _)
BigLowestDigit(a, i) == IF a[i] # 0 THEN i ELSE BigLowestDigit(a, i + 1)

\* the number of zero bits below the lowest set bit of a, a not zero
BigTrailingZeros(a) ==
  LET z == BigLowestDigit(a, 1)
  IN LimbBits * (z - 1) + IntTrailingZeros(a[z])

\* the digits of the quotient after the integer part q, k of them
RECURSIVE DivSteps(_, _, _, _)
DivSteps(q, r, d, k) ==
  IF k = 0 THEN [q |-> q, r |-> r]
  ELSE DivSteps(<<(r * LimbBase) \div d>> \o q, (r * LimbBase) % d, d, k - 1)

\* floor(sqrt(num)) and what is left, one bit of the root per step
RECURSIVE BigSqrtLoop(_, _, _)
BigSqrtLoop(num, res, p) ==
  IF p < 0 THEN [root |-> res, rem |-> num]
  ELSE LET bit == BigShl(<<1>>, p)
           t == BigAdd(res, bit)
       IN IF BigCmp(num, t) >= 0
          THEN BigSqrtLoop(BigSub(num, t), BigAdd(BigShr(res, 1), bit), p - 2)
          ELSE BigSqrtLoop(num, BigShr(res, 1), p - 2)

BigSqrt(a) ==
  LET top == BigBitLen(a) - 1
  IN BigSqrtLoop(a, <<>>, top - (top % 2))

DZero == [neg |-> FALSE, man |-> <<>>, exp |-> 0]

DIsZero(x) == x.man = <<>>

\* the double of value man * 2^exp, man below 2^53
DExact(neg, man, exp) ==
  IF man = <<>> THEN [neg |-> neg, man |-> <<>>, exp |-> 0]
  ELSE IF man[1] % 2 = 1 THEN [neg |-> neg, man |-> man, exp |-> exp]
  ELSE LET tz == BigTrailingZeros(man)
       IN [neg |-> neg, man |-> BigShr(man, tz), exp |-> exp + tz]

\* the double nearest to man * 2^exp (plus a little, when sticky), ties to
\* even; with sticky, man has more than 54 bits
DRound(neg, man, sticky, exp) ==
  LET len == BigBitLen(man)
      k == len - MantissaBits
  IN IF k <= 0 THEN DExact(neg, man, exp)
     ELSE LET q == BigShr(man, k)
              half == BigBit(man, k - 1) = 1
              more == sticky \/ BigLowBits(man, k - 1) # <<>>
              up == half /\ (more \/ q[1] % 2 = 1)
          IN DExact(neg, IF up THEN BigAdd(q, <<1>>) ELSE q, exp + k)

\* float(n), for an integer below 2^31
DFromInt(n) == DExact(n < 0, BigFromInt(Abs(n)), 0)

\* n / d in doubles, for integers n and d, 0 < |d| < 2^19.  In lowest terms
\* a quotient over a power of two is a double already; any other is rounded
\* from 96 bits of its fraction.
DDiv(n, d) ==
  LET an == Abs(n)
      ad == Abs(d)
      g == Gcd(an, ad)
      neg == (n < 0) # (d < 0)
      res == DivSteps(BigFromInt(an \div ad), an % ad, ad, 8)
  IN IF IsPow2(ad \div g)
     THEN DExact(neg, BigFromInt(an \div g), -IntTrailingZeros(ad \div g))
     ELSE DRound(neg, BigTrim(res.q), res.r # 0, -8 * LimbBits)

DNeg(x) == [x EXCEPT !.neg = ~x.neg]

\* position of the leading bit of |x|
DTop(x) == BigBitLen(x.man) + x.exp

\* -1, 0 or 1 as |x| is below, equal to or above |y|
DMagCmp(x, y) ==
  IF DIsZero(x) \/ DIsZero(y)
  THEN (IF DIsZero(x) /\ DIsZero(y) THEN 0 ELSE IF DIsZero(x) THEN -1 ELSE 1)
  ELSE LET tx == DTop(x)
           ty == DTop(y)
           e == IF x.exp < y.exp THEN x.exp ELSE y.exp
       IN IF tx # ty THEN (IF tx < ty THEN -1 ELSE 1)
          ELSE BigCmp(BigShl(x.man, x.exp - e), BigShl(y.man, y.exp - e))

\* -1, 0 or 1 as x is below, equal to or above y
DCmp(x, y) ==
  IF DIsZero(x) /\ DIsZero(y) THEN 0
  ELSE IF DIsZero(x) THEN (IF y.neg THEN 1 ELSE -1)
  ELSE IF DIsZero(y) THEN (IF x.neg THEN -1 ELSE 1)
  ELSE IF x.neg # y.neg THEN (IF x.neg THEN -1 ELSE 1)
  ELSE IF x.neg THEN -DMagCmp(x, y) ELSE DMagCmp(x, y)

DLe(x, y) == DCmp(x, y) <= 0
DLt(x, y) == DCmp(x, y) < 0

\* x + y in doubles
DAdd(x, y) ==
  IF DIsZero(x) /\ DIsZero(y) THEN [DZero EXCEPT !.neg = x.neg /\ y.neg]
  ELSE IF DIsZero(x) THEN y
  ELSE IF DIsZero(y) THEN x
  ELSE LET e == IF x.exp < y.exp THEN x.exp ELSE y.exp
           a == BigShl(x.man, x.exp - e)
           b == BigShl(y.man, y.exp - e)
           c == BigCmp(a, b)
           gap == DTop(x) - DTop(y)
       IN IF gap > 60 THEN x
          ELSE IF gap < -60 THEN y
          ELSE IF x.neg = y.neg THEN DRound(x.neg, BigAdd(a, b), FALSE, e)
          ELSE IF c = 0 THEN DZero
          ELSE IF c > 0 THEN DRound(x.neg, BigSub(a, b), FALSE, e)
          ELSE DRound(y.neg, BigSub(b, a), FALSE, e)

\* x - y in doubles
DSub(x, y) == DAdd(x, DNeg(y))

\* x * c in doubles, for an integer c, |c| < 2^19
DMulInt(x, c) ==
  DRound(x.neg # (c < 0), BigMulSmall(x.man, Abs(c)), FALSE, x.exp)

\* np.sqrt(x) in doubles, for x >= 0.  The root of a square of a whole
\* number times an even power of two is a double already; any other is
\* rounded from 55 bits of the root.
DSqrt(x) ==
  IF DIsZero(x) THEN x
  ELSE LET small == BigLimb(x.man, 1) + LimbBase * BigLimb(x.man, 2)
           r == IntSqrtBetween(small, 0, LimbBase - 1)
           s0 == 110 - BigBitLen(x.man)
           s == IF (x.exp - s0) % 2 = 0 THEN s0 ELSE s0 + 1
           sq == BigSqrt(BigShl(x.man, s))
       IN IF Len(x.man) <= 2 /\ x.exp % 2 = 0 /\ r * r = small
          THEN DExact(FALSE, BigFromInt(r), x.exp \div 2)
          ELSE DRound(FALSE, sq.root, sq.rem # <<>>, (x.exp - s) \div 2)

\* ------------------------------------------------- program constants
ref_before_s == DDiv(1, 1000)          \* the literal 0.001
ref_after_s == DDiv(2, 1000)           \* the literal 0.002
before_ms_default == 2
after_ms_default == 3
stamped_before_ms == 2                 \* 2.0, spike_waveform_params
stamped_after_ms == 3                  \* 3.0, spike_waveform_params
stamped_refractory_before_s == DDiv(1, 1000)  \* 0.001, spike_detection_params
stamped_refractory_after_s == DDiv(2, 1000)   \* 0.002, spike_detection_params
default_n_rms_multiplier == 4

\* ------------------------------------------------------------- helpers
\* np.sum(signal**2), summed by halves so that long signals stay shallow
RECURSIVE SumSq(_)
SumSq(s) ==
  IF Len(s) = 0 THEN 0
  ELSE IF Len(s) = 1 THEN s[1] * s[1]
  ELSE LET half == Len(s) \div 2
       IN SumSq(SubSeq(s, 1, half)) + SumSq(SubSeq(s, half + 1, Len(s)))

RECURSIVE SortedSeq(_)
SortedSeq(S) ==
  IF S = {} THEN <<>>
  ELSE LET m == CHOOSE x \in S : \A y \in S : x <= y
       IN <<m>> \o SortedSeq(S \ {m})

\* mutant: the time taken at a fixed 1 kHz instead of self.sampling_rate
TimeSAtOneKilohertz(idx, fs) == DDiv(idx, 1000)

\* spike_time_s = peak_original_idx / self.sampling_rate
TimeS(idx, fs) == DDiv(idx, fs)

\* rms_signal == 0
RmsIsZero(signal) == SumSq(signal) = 0

\* rms_signal = np.sqrt(np.mean(signal**2)): the sum of the squares of
\* integer samples is exact, the division and the root round
RmsSignal(signal) == DSqrt(DDiv(SumSq(signal), Len(signal)))

\* threshold_value = -n_rms_multiplier * rms_signal
ThresholdValue(signal, mult) == DMulInt(RmsSignal(signal), -mult)

\* v < threshold_value for an integer sample v.  With a positive multiplier
\* the threshold is not above zero, so no sample v >= 0 is below it.  For
\* v < 0, unless v^2 * N equals n_rms_multiplier^2 * sum, v and the exact
\* threshold differ by more than 2^-32 of their size, which the three
\* roundings of threshold_value (each within 2^-53) cannot bridge, so the
\* comparison of the doubles is the comparison of the exact values; at
\* equality, and for a multiplier that is not positive, the doubles decide.
BelowThresholdValue(v, signal, mult) ==
  LET lhs == v * v * Len(signal)
      rhs == mult * mult * SumSq(signal)
  IN IF mult > 0 /\ v >= 0 THEN FALSE
     ELSE IF lhs = rhs \/ mult <= 0
     THEN DLt(DFromInt(v), ThresholdValue(signal, mult))
     ELSE lhs > rhs

\* mutant: the mask taken on |signal| > n_rms_multiplier * rms_signal
AbsAboveThreshold(v, signal, mult) ==
  BelowThresholdValue(-Abs(v), signal, mult)

\* one element of signal < threshold_value
BelowThreshold(v, signal, mult) == BelowThresholdValue(v, signal, mult)

\* supra_threshold_mask, as 0/1 (the code's .astype(int))
SupraThresholdMask(signal, mult) ==
  [i \in 1..Len(signal) |->
     IF BelowThreshold(signal[i], signal, mult) THEN 1 ELSE 0]

\* np.diff(np.concatenate(([False], mask, [False])).astype(int));
\* position k of the result is index k - 1 of the code
DiffMask(mask) ==
  LET padded == <<0>> \o mask \o <<0>>
  IN [k \in 1..(Len(mask) + 1) |-> padded[k + 1] - padded[k]]

\* np.where(diff_mask == 1)[0], 0-based, ascending
SegmentStarts(mask) ==
  SortedSeq({k - 1 : k \in {j \in 1..(Len(mask) + 1) : DiffMask(mask)[j] = 1}})

\* np.where(diff_mask == -1)[0], 0-based, ascending (exclusive segment ends)
SegmentEnds(mask) ==
  SortedSeq({k - 1 : k \in {j \in 1..(Len(mask) + 1) : DiffMask(mask)[j] = -1}})

\* mutant: the last minimum instead of the first
ArgMinLast(vals) ==
  (CHOOSE i \in 1..Len(vals) :
     /\ \A j \in 1..Len(vals) : vals[i] <= vals[j]
     /\ \A j \in (i + 1)..Len(vals) : vals[j] > vals[i]) - 1

\* np.argmin: 0-based position of the first minimum
ArgMin(vals) ==
  (CHOOSE i \in 1..Len(vals) :
     /\ \A j \in 1..Len(vals) : vals[i] <= vals[j]
     /\ \A j \in 1..(i - 1) : vals[j] > vals[i]) - 1

\* mutant: the event placed at the start of its segment, not at the peak
SegmentPeakAtStart(signal, start_idx, end_idx, fs) ==
  LET segment_values == SubSeq(signal, start_idx + 1, end_idx)
      peak_idx_in_segment == ArgMin(segment_values)
  IN [time_s |-> TimeS(start_idx, fs),
      amplitude_mv |-> segment_values[peak_idx_in_segment + 1],
      index |-> start_idx]

\* body of the loop over zip(segment_starts, segment_ends)
SegmentPeak(signal, start_idx, end_idx, fs) ==
  LET segment_values == SubSeq(signal, start_idx + 1, end_idx)
      peak_idx_in_segment == ArgMin(segment_values)
      peak_original_idx == start_idx + peak_idx_in_segment
  IN [time_s |-> TimeS(peak_original_idx, fs),
      amplitude_mv |-> segment_values[peak_idx_in_segment + 1],
      index |-> peak_original_idx]

\* detected_spikes.sort(key=time_s): stable insertion sort
RECURSIVE InsertByTime(_, _)
InsertByTime(sorted, e) ==
  IF sorted = <<>> THEN <<e>>
  ELSE IF DLe(sorted[Len(sorted)].time_s, e.time_s) THEN Append(sorted, e)
  ELSE Append(InsertByTime(SubSeq(sorted, 1, Len(sorted) - 1), e),
              sorted[Len(sorted)])

RECURSIVE SortByTime(_)
SortByTime(spikes) ==
  IF spikes = <<>> THEN <<>>
  ELSE InsertByTime(SortByTime(SubSeq(spikes, 1, Len(spikes) - 1)),
                    spikes[Len(spikes)])

\* ------------------------------------------------- refractory filter
NoWindows == [validated_spikes |-> <<>>, active_windows |-> <<>>]

\* mutant: the window's end taken exclusive
IsShadowedEndExclusive(t, windows) ==
  \E k \in 1..Len(windows) : DLe(windows[k][1], t) /\ DLt(t, windows[k][2])

\* mutant: both ends of the window taken exclusive
IsShadowedStrictly(t, windows) ==
  \E k \in 1..Len(windows) : DLt(windows[k][1], t) /\ DLt(t, windows[k][2])

\* window_start <= current_peak_time <= window_end for some active window
IsShadowed(t, windows) ==
  \E k \in 1..Len(windows) : DLe(windows[k][1], t) /\ DLe(t, windows[k][2])

\* mutant: a shadowed candidate adds its window too
FilterIterationWindowForAll(st, current_spike, before, after) ==
  [validated_spikes |->
     IF IsShadowed(current_spike.time_s, st.active_windows)
     THEN st.validated_spikes
     ELSE Append(st.validated_spikes, current_spike),
   active_windows |->
     Append(st.active_windows,
            <<DSub(current_spike.time_s, before),
              DAdd(current_spike.time_s, after)>>)]

\* mutant: the window closes before_s + after_s after the peak, as when
\* events are told apart by their separation
FilterIterationBySeparation(st, current_spike, before, after) ==
  IF IsShadowed(current_spike.time_s, st.active_windows)
  THEN st
  ELSE [validated_spikes |-> Append(st.validated_spikes, current_spike),
        active_windows |->
          Append(st.active_windows,
                 <<DSub(current_spike.time_s, before),
                   DAdd(current_spike.time_s, DAdd(before, after))>>)]

\* mutant: a window is dropped once it has rejected a candidate
FilterIterationWindowUsedOnce(st, current_spike, before, after) ==
  IF IsShadowed(current_spike.time_s, st.active_windows)
  THEN [validated_spikes |-> st.validated_spikes,
        active_windows |->
          SelectSeq(st.active_windows,
                    LAMBDA w : ~(DLe(w[1], current_spike.time_s)
                                 /\ DLe(current_spike.time_s, w[2])))]
  ELSE [validated_spikes |-> Append(st.validated_spikes, current_spike),
        active_windows |->
          Append(st.active_windows,
                 <<DSub(current_spike.time_s, before),
                   DAdd(current_spike.time_s, after)>>)]

\* one iteration of the loop over initial_spikes_sorted
FilterIteration(st, current_spike, before, after) ==
  IF IsShadowed(current_spike.time_s, st.active_windows)
  THEN st
  ELSE [validated_spikes |-> Append(st.validated_spikes, current_spike),
        active_windows |->
          Append(st.active_windows,
                 <<DSub(current_spike.time_s, before),
                   DAdd(current_spike.time_s, after)>>)]

RECURSIVE FilterLoop(_, _, _, _)
FilterLoop(st, spikes, before, after) ==
  IF spikes = <<>> THEN st
  ELSE FilterLoop(FilterIteration(st, Head(spikes), before, after),
                  Tail(spikes), before, after)

\* mutant: no candidate is ever rejected
filter_keeping_every_candidate(spikes, before, after) == spikes

filter_spikes_iterative_refractory(spikes, before, after) ==
  IF spikes = <<>> THEN <<>>
  ELSE FilterLoop(NoWindows, spikes, before, after).validated_spikes

\* ---- the pruning variant of the filter: before a candidate is tested, every
\* ---- active window whose end is earlier than the candidate's time is dropped
PrunedWindows(windows, t) == SelectSeq(windows, LAMBDA w : DLe(t, w[2]))

PruningIteration(st, current_spike, before, after) ==
  LET t == current_spike.time_s
      kept == PrunedWindows(st.active_windows, t)
  IN IF \E k \in 1..Len(kept) : DLe(kept[k][1], t) /\ DLe(t, kept[k][2])
     THEN [validated_spikes |-> st.validated_spikes, active_windows |-> kept]
     ELSE [validated_spikes |-> Append(st.validated_spikes, current_spike),
           active_windows |-> Append(kept, <<DSub(t, before), DAdd(t, after)>>)]

RECURSIVE PruningLoop(_, _, _, _)
PruningLoop(st, spikes, before, after) ==
  IF spikes = <<>> THEN st
  ELSE PruningLoop(PruningIteration(st, Head(spikes), before, after),
                   Tail(spikes), before, after)

\* ------------------------------------------------------------ detector
EmptyDetection == [raw_detected |-> <<>>, refractory_filtered |-> <<>>]

\* the loop over zip(segment_starts, segment_ends), then the sort
DetectedSpikes(signal, mask, fs) ==
  LET starts == SegmentStarts(mask)
      ends == SegmentEnds(mask)
      n == IF Len(starts) <= Len(ends) THEN Len(starts) ELSE Len(ends)
  IN SortByTime([k \in 1..n |-> SegmentPeak(signal, starts[k], ends[k], fs)])

\* mutant: no early return for a degenerate signal, and the mask taken with <=
detect_without_degenerate_returns(signal, mult, fs) ==
  LET mask == [i \in 1..Len(signal) |->
                 IF DLe(DFromInt(signal[i]), ThresholdValue(signal, mult))
                 THEN 1 ELSE 0]
      detected == DetectedSpikes(signal, mask, fs)
  IN [raw_detected |-> detected,
      refractory_filtered |->
        filter_spikes_iterative_refractory(detected, ref_before_s, ref_after_s)]

detect_spikes_in_signal(signal, mult, fs) ==
  IF Len(signal) = 0 THEN EmptyDetection
  ELSE IF RmsIsZero(signal) THEN EmptyDetection
  ELSE LET mask == SupraThresholdMask(signal, mult)
           detected == DetectedSpikes(signal, mask, fs)
       IN IF \A i \in 1..Len(mask) : mask[i] = 0 THEN EmptyDetection
          ELSE [raw_detected |-> detected,
                refractory_filtered |->
                  filter_spikes_iterative_refractory(detected, ref_before_s,
                                                     ref_after_s)]

\* ------------------------------------------------- waveform extractor
\* mutant: the window counted at half the sampling rate
SamplesForHalved(ms, fs) ==
  IF ms * fs >= 0 THEN (ms * fs) \div 2000 ELSE -((-(ms * fs)) \div 2000)

\* int(ms * self.sampling_rate / 1000): the quotient of two integers below
\* 2^31 is never rounded across a whole number, and int() drops its fraction
SamplesFor(ms, fs) ==
  IF ms * fs >= 0 THEN (ms * fs) \div 1000 ELSE -((-(ms * fs)) \div 1000)

\* spike_idx >= samples_before and spike_idx + samples_after < signal_length
FullWaveformFits(idx, samples_before, samples_after, signal_length) ==
  idx >= samples_before /\ idx + samples_after < signal_length

\* a bound of a slice of n elements as Python reads it: a negative bound
\* counts from the end, and the position is kept between 0 and n
SliceBound(i, n) ==
  IF i < 0 THEN (IF i + n < 0 THEN 0 ELSE i + n) ELSE IF i > n THEN n ELSE i

\* signal[spike_idx - samples_before : spike_idx + samples_after + 1]
WaveformSlice(signal, spike_idx, samples_before, samples_after) ==
  SubSeq(signal,
         SliceBound(spike_idx - samples_before, Len(signal)) + 1,
         SliceBound(spike_idx + samples_after + 1, Len(signal)))

\* np.arange(-samples_before, samples_after + 1) * 1000 / self.sampling_rate
TimeAxis(samples_before, samples_after, fs) ==
  [j \in 1..(samples_before + samples_after + 1) |->
     DDiv((j - 1 - samples_before) * 1000, fs)]

extract_spike_waveforms(signal, spike_times_list, before_ms, after_ms, fs) ==
  LET samples_before == SamplesFor(before_ms, fs)
      samples_after == SamplesFor(after_ms, fs)
      fits(spike) == FullWaveformFits(spike.index, samples_before,
                                      samples_after, Len(signal))
      kept == SelectSeq(spike_times_list, fits)
  IN [waveforms |->
        [k \in 1..Len(kept) |->
           WaveformSlice(signal, kept[k].index, samples_before, samples_after)],
      time_axis |-> TimeAxis(samples_before, samples_after, fs),
      spike_indices |-> [k \in 1..Len(kept) |-> kept[k].index]]

\* --------------------------------------------- values of record fields
\* A dictionary entry is absent, None, or holds a value.
Absent == [k |-> "absent"]
NoneVal == [k |-> "none"]
Holds(v) == [k |-> "value", v |-> v]

\* "f" in sample_data and sample_data["f"] is not None and len(...) > 0
Usable(field) == field.k = "value" /\ Len(field.v) > 0

\* mutant: signal_mv preferred to filtered_signal
SignalToProcessPreferringRaw(sample_data) ==
  IF Usable(sample_data.signal_mv) THEN sample_data.signal_mv
  ELSE IF Usable(sample_data.filtered_signal) THEN sample_data.filtered_signal
  ELSE NoneVal

\* signal_to_process of one iteration of process_all_samples (None: NoneVal)
SignalToProcess(sample_data) ==
  IF Usable(sample_data.filtered_signal) THEN sample_data.filtered_signal
  ELSE IF Usable(sample_data.signal_mv) THEN sample_data.signal_mv
  ELSE NoneVal

\* mutant: the waveform looked up by the spike's position in the list
AttachWaveformsByPosition(refractory_filtered, wd) ==
  [i \in 1..Len(refractory_filtered) |->
     LET spike == refractory_filtered[i]
         hits == {k \in 1..Len(wd.spike_indices) : wd.spike_indices[k] = spike.index}
     IN IF hits # {}
        THEN LET waveform_idx == IF i <= Len(wd.waveforms) THEN i
                                 ELSE Len(wd.waveforms)
             IN [time_s |-> spike.time_s,
                 amplitude_mv |-> spike.amplitude_mv,
                 index |-> spike.index,
                 waveform |-> wd.waveforms[waveform_idx]]
        ELSE spike]

\* mutant: a spike without a waveform is dropped from the list
AttachWaveformsDropUnfit(refractory_filtered, wd) ==
  LET fit(spike) == \E k \in 1..Len(wd.spike_indices) :
                      wd.spike_indices[k] = spike.index
      kept == SelectSeq(refractory_filtered, fit)
  IN [i \in 1..Len(kept) |->
        LET hits == {k \in 1..Len(wd.spike_indices) :
                       wd.spike_indices[k] = kept[i].index}
        IN [time_s |-> kept[i].time_s,
            amplitude_mv |-> kept[i].amplitude_mv,
            index |-> kept[i].index,
            waveform |-> wd.waveforms[CHOOSE k \in hits : \A h \in hits : k <= h]]]

\* the loop that builds refractory_filtered_with_waveforms
AttachWaveforms(refractory_filtered, wd) ==
  [i \in 1..Len(refractory_filtered) |->
     LET spike == refractory_filtered[i]
         hits == {k \in 1..Len(wd.spike_indices) : wd.spike_indices[k] = spike.index}
     IN IF hits # {}
        THEN LET waveform_idx == CHOOSE k \in hits : \A h \in hits : k <= h
             IN [time_s |-> spike.time_s,
                 amplitude_mv |-> spike.amplitude_mv,
                 index |-> spike.index,
                 waveform |-> wd.waveforms[waveform_idx]]
        ELSE spike]

\* mutant: the two event lists stored under each other's key
DetectedFieldsSwapped(sig, mult, fs) ==
  LET spike_detection_results == detect_spikes_in_signal(sig, mult, fs)
      wd == extract_spike_waveforms(sig,
              spike_detection_results.refractory_filtered,
              before_ms_default, after_ms_default, fs)
  IN [spikes_raw_detected |->
        Holds(AttachWaveforms(spike_detection_results.refractory_filtered, wd)),
      spikes_refractory_filtered |-> Holds(spike_detection_results.raw_detected),
      spike_waveform_metadata |->
        Holds([time_axis_ms |-> wd.time_axis,
               before_ms |-> before_ms_default,
               after_ms |-> after_ms_default])]

\* mutant: the waveform is set on the event itself, not on a copy, so the
\* raw-detected event, which is the same object, carries it too
DetectedFieldsWithoutCopy(sig, mult, fs) ==
  LET spike_detection_results == detect_spikes_in_signal(sig, mult, fs)
      wd == extract_spike_waveforms(sig,
              spike_detection_results.refractory_filtered,
              before_ms_default, after_ms_default, fs)
      with_waveforms ==
        AttachWaveforms(spike_detection_results.refractory_filtered, wd)
      shared(spike) ==
        LET same == {i \in 1..Len(with_waveforms) :
                       with_waveforms[i].index = spike.index}
        IN IF same = {} THEN spike ELSE with_waveforms[CHOOSE i \in same : TRUE]
  IN [spikes_raw_detected |->
        Holds([i \in 1..Len(spike_detection_results.raw_detected) |->
                 shared(spike_detection_results.raw_detected[i])]),
      spikes_refractory_filtered |-> Holds(with_waveforms),
      spike_waveform_metadata |->
        Holds([time_axis_ms |-> wd.time_axis,
               before_ms |-> before_ms_default,
               after_ms |-> after_ms_default])]

\* the three fields, from the detection results and the extracted waveforms
FieldsStored(spike_detection_results, wd) ==
  [spikes_raw_detected |-> Holds(spike_detection_results.raw_detected),
   spikes_refractory_filtered |->
     Holds(AttachWaveforms(spike_detection_results.refractory_filtered, wd)),
   spike_waveform_metadata |->
     Holds([time_axis_ms |-> wd.time_axis,
            before_ms |-> before_ms_default,
            after_ms |-> after_ms_default])]

\* the three fields, the waveforms extracted for the filtered events
FieldsAfterExtraction(sig, spike_detection_results, fs) ==
  FieldsStored(spike_detection_results,
               extract_spike_waveforms(sig,
                 spike_detection_results.refractory_filtered,
                 before_ms_default, after_ms_default, fs))

\* the three fields stored for a sample whose signal was analysed
DetectedFields(sig, mult, fs) ==
  FieldsAfterExtraction(sig, detect_spikes_in_signal(sig, mult, fs), fs)

\* mutant: the selected signal is also written back as filtered_signal
WithFieldsAndSignal(sample_data, raw, filtered, metadata) ==
  [sample_data EXCEPT !.filtered_signal = SignalToProcess(sample_data),
                      !.spikes_raw_detected = raw,
                      !.spikes_refractory_filtered = filtered,
                      !.spike_waveform_metadata = metadata]

\* sample_data after the assignments, its other fields kept
WithFields(sample_data, raw, filtered, metadata) ==
  [sample_data EXCEPT !.spikes_raw_detected = raw,
                      !.spikes_refractory_filtered = filtered,
                      !.spike_waveform_metadata = metadata]

\* sample_data holding the three fields of out
WithDetectedFields(sample_data, out) ==
  WithFields(sample_data, out.spikes_raw_detected,
             out.spikes_refractory_filtered, out.spike_waveform_metadata)

\* mutant: the raw-detected events are added to the list the sample holds
SampleAfterDetectAppending(sample_data, mult, fs) ==
  LET out == DetectedFields(SignalToProcess(sample_data).v, mult, fs)
      held == IF sample_data.spikes_raw_detected.k = "value"
              THEN sample_data.spikes_raw_detected.v ELSE <<>>
  IN WithFields(sample_data, Holds(held \o out.spikes_raw_detected.v),
                out.spikes_refractory_filtered, out.spike_waveform_metadata)

\* sample_data after an iteration that analysed its signal
SampleAfterDetect(sample_data, mult, fs) ==
  WithDetectedFields(sample_data,
                     DetectedFields(SignalToProcess(sample_data).v, mult, fs))

\* sample_data after an iteration that met an invalid sampling rate
SampleAfterInvalidRate(sample_data) ==
  WithFields(sample_data, Holds(<<>>), Holds(<<>>),
             sample_data.spike_waveform_metadata)

\* sample_data after an iteration that found no signal to analyse
SampleAfterNoSignal(sample_data) ==
  WithFields(sample_data, Holds(<<>>), Holds(<<>>), NoneVal)

\* ----------------------------------------------------------- state
VARIABLES
  pc,                   \* position of the operation under way
  sampling_rate,        \* self.sampling_rate
  n_rms_multiplier,     \* argument of detect / process_all_samples
  samples_is_dict,      \* "samples" in self.data and it is a dict
  samples,              \* self.data["samples"], in iteration order
  si,                   \* samples already visited by process_all_samples
  spike_waveform_params,\* subject_metadata["spike_waveform_params"]
  signal,               \* argument of a direct detect / extract call
  before_ms, after_ms,  \* arguments of a direct extract call
  detection,            \* value returned by detect_spikes_in_signal
  waveforms_data,       \* value returned by extract_spike_waveforms
  initial_spikes_sorted,\* argument of a direct filter call
  before_s, after_s,    \* arguments of a direct filter call
  fi,                   \* candidates already visited by the filter loop
  filter_state,         \* validated_spikes and active_windows of the loop
  filter_result,        \* value returned by the filter
  processed_files,      \* the input files found, in the order of the loop
  file_pos,             \* input files the orchestrator is done with
  output_dir,           \* the files of the output directory
  report                \* per input file, the message the orchestrator ended on

subjectVars == <<sampling_rate, n_rms_multiplier, samples_is_dict, samples, si,
                 spike_waveform_params>>
unitVars == <<signal, before_ms, after_ms, detection, waveforms_data>>
filterVars == <<initial_spikes_sorted, before_s, after_s, fi, filter_state,
                filter_result>>
batchVars == <<processed_files, file_pos, output_dir, report>>
vars == <<pc, subjectVars, unitVars, filterVars, batchVars>>

NoWaveforms == [waveforms |-> <<>>, time_axis |-> <<>>, spike_indices |-> <<>>]

\* parts of the state an operation is not called on
NoSubject ==
  /\ samples_is_dict = FALSE
  /\ samples = <<>>
  /\ si = 0
  /\ spike_waveform_params = Absent

NoUnitCall ==
  /\ signal = <<>>
  /\ before_ms = before_ms_default
  /\ after_ms = after_ms_default
  /\ detection = EmptyDetection
  /\ waveforms_data = NoWaveforms

NoFilterCall ==
  /\ initial_spikes_sorted = <<>>
  /\ before_s = DZero
  /\ after_s = DZero
  /\ fi = 0
  /\ filter_state = NoWindows
  /\ filter_result = Absent

NoBatch ==
  /\ processed_files = <<>>
  /\ file_pos = 0
  /\ output_dir = {}
  /\ report = <<>>

\* ------------------------------------- direct calls of detect / extract
InitDetect ==
  /\ pc = "detect"
  /\ sampling_rate \in Rates \cup NegativeRates
  /\ n_rms_multiplier \in Multipliers
  /\ NoSubject
  /\ signal \in Signals
  /\ before_ms = before_ms_default
  /\ after_ms = after_ms_default
  /\ detection = EmptyDetection
  /\ waveforms_data = NoWaveforms
  /\ NoFilterCall
  /\ NoBatch

\* detect_spikes_in_signal(signal, n_rms_multiplier)
DetectCall ==
  /\ pc = "detect"
  /\ detection' = detect_spikes_in_signal(signal, n_rms_multiplier, sampling_rate)
  /\ pc' = "extract"
  /\ UNCHANGED <<subjectVars, filterVars, batchVars, signal, before_ms, after_ms,
                 waveforms_data>>

\* extract_spike_waveforms(signal, refractory_filtered, before_ms, after_ms)
\* np.array(waveforms) is handed slices that differ in length: it raises
\* ValueError from numpy 1.24 on, and builds an array of objects before
Ragged(waveforms) ==
  \E i, j \in 1..Len(waveforms) : Len(waveforms[i]) # Len(waveforms[j])

\* the call returned wd, or np.array raised on its waveforms
ExtractReturns(wd) ==
  \/ /\ waveforms_data' = wd
     /\ pc' = "extracted"
  \/ /\ Ragged(wd.waveforms)
     /\ waveforms_data' = NoWaveforms
     /\ pc' = "extract_raised"

ExtractCall ==
  /\ pc = "extract"
  /\ before_ms' \in {0, 2}
  /\ after_ms' \in {1, 3}
  /\ ExtractReturns(extract_spike_waveforms(signal,
                                            detection.refractory_filtered,
                                            before_ms', after_ms',
                                            sampling_rate))
  /\ UNCHANGED <<subjectVars, filterVars, batchVars, signal, detection>>

NextDetect == DetectCall \/ ExtractCall

SpecDetect == InitDetect /\ [][NextDetect]_vars

\* ---------------------------- detect / extract called on spike scenarios
\* a signal of n samples, zero except for the value a at 0-based index p
SingleSpikeSignal(n, p, a) == [i \in 1..n |-> IF i = p + 1 THEN a ELSE 0]

\* a signal of n samples, zero except for the value a at indices p and p + d
TwoSpikeSignal(n, p, d, a) ==
  [i \in 1..n |-> IF i = p + 1 \/ i = p + d + 1 THEN a ELSE 0]

Scenario(sig, fs, mult) == [signal |-> sig, sampling_rate |-> fs, mult |-> mult]

\* one excursion in 1000 samples at 1000 Hz, at the edges and in the middle
SingleSpikeScenarios ==
  {Scenario(SingleSpikeSignal(1000, p, a), 1000, mult) :
     p \in {0, 1, 2, 500, 996, 997, 999}, a \in {-10, -1, 10}, mult \in {4, 32}}

\* two excursions d samples apart; 0.0005 s is 2 samples at 4000 Hz and 5 at
\* 10000 Hz, 0.01 s is 40 and 100 samples.  At 1000 Hz the peaks are 0.002 s
\* or 0.003 s apart, around the place where 0.018 + 0.002 rounds below 0.020.
TwoSpikeScenarios ==
  {Scenario(TwoSpikeSignal(120, p, d, a), 4000, 4) :
     p \in {0, 5}, d \in {2, 4, 7, 8, 9, 12, 40}, a \in {-10, -3}}
    \cup {Scenario(TwoSpikeSignal(120, p, d, a), 10000, 4) :
            p \in {0, 5}, d \in {5, 10, 19, 20, 21, 100}, a \in {-10, -3}}
    \cup {Scenario(TwoSpikeSignal(120, p, d, a), 1000, 4) :
            p \in {16, 17, 18, 19}, d \in {2, 3}, a \in {-10, -3}}

\* one excursion of 9 samples that lies on the exact threshold with multiplier
\* 3: -3 * sqrt(961 / 9) is -30.999999999999996 in doubles, and
\* -3 * sqrt(1 / 9) is -1.0
ThresholdScenarios ==
  {Scenario(SingleSpikeSignal(9, p, a), 1000, 3) : p \in {0, 4}, a \in {-31, -1}}

InitScenario ==
  /\ pc = "detect"
  /\ \E sc \in SingleSpikeScenarios \cup TwoSpikeScenarios
                   \cup ThresholdScenarios :
       /\ signal = sc.signal
       /\ sampling_rate = sc.sampling_rate
       /\ n_rms_multiplier = sc.mult
  /\ NoSubject
  /\ before_ms = before_ms_default
  /\ after_ms = after_ms_default
  /\ detection = EmptyDetection
  /\ waveforms_data = NoWaveforms
  /\ NoFilterCall
  /\ NoBatch

SpecScenario == InitScenario /\ [][NextDetect]_vars

\* ------------------------------------------ direct calls of the filter
\* k / 1000: the time of sample k at 1000 Hz, and the windows in that unit
Millis(k) == DDiv(k, 1000)

\* the sample numbers of the candidates: 0 and MaxTime + 2..2 * MaxTime, a
\* range that holds a sum rounded below the exact one (0.009 + 0.001 < 0.010)
\* and a sum rounded above it (0.007 + 0.002 > 0.009)
CandidateSamples == {0} \cup ((MaxTime + 2)..(2 * MaxTime))

\* candidate lists sorted by time_s; index identifies the candidate
SortedTimes ==
  UNION {{ts \in [1..n -> CandidateSamples] :
            \A i \in 1..(n - 1) : ts[i] <= ts[i + 1]} : n \in 0..MaxSpikes}

CandidatesAt(ts) ==
  [i \in 1..Len(ts) |->
     [time_s |-> Millis(ts[i]), amplitude_mv |-> -1, index |-> i - 1]]

WindowLengths == {Millis(w) : w \in 0..MaxWin}

InitFilter ==
  /\ pc = "filter"
  /\ sampling_rate = 1000
  /\ n_rms_multiplier = 1
  /\ NoSubject
  /\ NoUnitCall
  /\ NoBatch
  /\ \E ts \in SortedTimes : initial_spikes_sorted = CandidatesAt(ts)
  /\ before_s \in WindowLengths
  /\ after_s \in WindowLengths
  /\ fi = 0
  /\ filter_state = NoWindows
  /\ filter_result = Absent

\* if not initial_spikes_sorted: return []
FilterEmpty ==
  /\ pc = "filter"
  /\ initial_spikes_sorted = <<>>
  /\ filter_result' = Holds(<<>>)
  /\ pc' = "filtered"
  /\ UNCHANGED <<subjectVars, unitVars, batchVars, initial_spikes_sorted, before_s,
                 after_s, fi, filter_state>>

\* one iteration of: for current_spike in initial_spikes_sorted
FilterVisit ==
  /\ pc = "filter"
  /\ fi < Len(initial_spikes_sorted)
  /\ filter_state' = FilterIteration(filter_state, initial_spikes_sorted[fi + 1],
                                     before_s, after_s)
  /\ fi' = fi + 1
  /\ UNCHANGED <<pc, subjectVars, unitVars, batchVars, initial_spikes_sorted, before_s,
                 after_s, filter_result>>

\* return validated_spikes
FilterReturn ==
  /\ pc = "filter"
  /\ initial_spikes_sorted # <<>>
  /\ fi = Len(initial_spikes_sorted)
  /\ filter_result' = Holds(filter_state.validated_spikes)
  /\ pc' = "filtered"
  /\ UNCHANGED <<subjectVars, unitVars, batchVars, initial_spikes_sorted, before_s,
                 after_s, fi, filter_state>>

NextFilter == FilterEmpty \/ FilterVisit \/ FilterReturn

SpecFilter == InitFilter /\ [][NextFilter]_vars

\* ---------------------------------------------- process_all_samples
PipelineValues == {-2, -1, 0}
PipelineSignals == UNION {[1..n -> PipelineValues] : n \in 0..MaxLen}
PipelineRates == {500, 1000}
InvalidRates == {0}
OtherSignal == <<0, -2, 0>>

NewSample(filtered, mv) ==
  [filtered_signal |-> filtered,
   signal_mv |-> mv,
   spikes_raw_detected |-> Absent,
   spikes_refractory_filtered |-> Absent,
   spike_waveform_metadata |-> Absent]

\* the ways a sample record can carry the signal sig
SamplesCarrying(sig) ==
  {NewSample(Holds(sig), Absent),
   NewSample(Holds(sig), Holds(OtherSignal)),
   NewSample(Absent, Holds(sig)),
   NewSample(NoneVal, Holds(sig)),
   NewSample(Holds(<<>>), Holds(sig))}

\* the samples a subject may hold after the first one
SiblingSamples ==
  {NewSample(Holds(<<0, 0, -2, 0, 0, 0>>), Absent),
   NewSample(Absent, NoneVal)}

\* sig has at most two samples that are not zero
FewExcursions(sig) == Cardinality({i \in 1..Len(sig) : sig[i] # 0}) <= 2

\* the sample dictionaries of a subject: one sample with sig as its
\* filtered_signal; for the signals with few excursions also one sample
\* carrying sig in any other way, and a sample carrying sig with a sibling, in
\* either iteration order
SubjectsCarrying(sig) ==
  {<<NewSample(Holds(sig), Absent)>>}
    \cup (IF FewExcursions(sig)
          THEN {<<first>> : first \in SamplesCarrying(sig)}
                 \cup {<<NewSample(Holds(sig), Absent), sibling>> :
                         sibling \in SiblingSamples}
                 \cup {<<sibling, NewSample(Holds(sig), Absent)>> :
                         sibling \in SiblingSamples}
          ELSE {})

Init ==
  /\ pc = "process_all_samples"
  /\ sampling_rate \in PipelineRates \cup InvalidRates
  /\ n_rms_multiplier \in Multipliers
  /\ samples_is_dict \in BOOLEAN
  /\ IF samples_is_dict
     THEN \E sig \in PipelineSignals : samples \in SubjectsCarrying(sig)
     ELSE samples = <<>>
  /\ si = 0
  /\ spike_waveform_params = Absent
  /\ NoUnitCall
  /\ NoFilterCall
  /\ NoBatch

\* "samples" not in self.data or not a dict: return self.data
ReturnNoSamples ==
  /\ pc = "process_all_samples"
  /\ ~samples_is_dict
  /\ pc' = "returned"
  /\ UNCHANGED <<subjectVars, unitVars, filterVars, batchVars>>

\* self.data["subject_metadata"]["spike_waveform_params"] = {...}
StampWaveformParams ==
  /\ pc = "process_all_samples"
  /\ samples_is_dict
  /\ spike_waveform_params' =
       Holds([before_ms |-> stamped_before_ms, after_ms |-> stamped_after_ms])
  /\ pc' = "samples_loop"
  /\ UNCHANGED <<sampling_rate, n_rms_multiplier, samples_is_dict, samples, si,
                 unitVars, filterVars, batchVars>>

\* mutant: the candidate list is not reset between samples, so a sample's
\* raw-detected list starts with the events of the sample visited before it
ProcessSampleDetectAccumulating ==
  /\ pc = "samples_loop"
  /\ si < Len(samples)
  /\ LET sample_data == samples[si + 1]
         own == SampleAfterDetect(sample_data, n_rms_multiplier, sampling_rate)
         carried == IF si >= 1 THEN samples[si].spikes_raw_detected.v ELSE <<>>
     IN /\ SignalToProcess(sample_data) # NoneVal
        /\ sampling_rate > 0
        /\ samples' = [samples EXCEPT ![si + 1] =
             [own EXCEPT !.spikes_raw_detected =
                Holds(carried \o own.spikes_raw_detected.v)]]
  /\ si' = si + 1
  /\ UNCHANGED <<pc, sampling_rate, n_rms_multiplier, samples_is_dict,
                 spike_waveform_params, unitVars, filterVars, batchVars>>

\* loop iteration: a signal was selected and the sampling rate is valid
ProcessSampleDetect ==
  /\ pc = "samples_loop"
  /\ si < Len(samples)
  /\ LET sample_data == samples[si + 1]
         signal_to_process == SignalToProcess(sample_data)
     IN /\ signal_to_process # NoneVal
        /\ sampling_rate > 0
        /\ samples' = [samples EXCEPT ![si + 1] =
             SampleAfterDetect(sample_data, n_rms_multiplier, sampling_rate)]
  /\ si' = si + 1
  /\ UNCHANGED <<pc, sampling_rate, n_rms_multiplier, samples_is_dict,
                 spike_waveform_params, unitVars, filterVars, batchVars>>

\* mutant: an invalid sampling rate ends the loop instead of the iteration
ProcessSampleInvalidRateReturning ==
  /\ pc = "samples_loop"
  /\ si < Len(samples)
  /\ LET sample_data == samples[si + 1]
     IN /\ SignalToProcess(sample_data) # NoneVal
        /\ sampling_rate <= 0
        /\ samples' = [samples EXCEPT ![si + 1] =
             SampleAfterInvalidRate(sample_data)]
  /\ si' = si + 1
  /\ pc' = "returned"
  /\ UNCHANGED <<sampling_rate, n_rms_multiplier, samples_is_dict,
                 spike_waveform_params, unitVars, filterVars, batchVars>>

\* loop iteration: a signal was selected but the sampling rate is not valid
ProcessSampleInvalidRate ==
  /\ pc = "samples_loop"
  /\ si < Len(samples)
  /\ LET sample_data == samples[si + 1]
     IN /\ SignalToProcess(sample_data) # NoneVal
        /\ sampling_rate <= 0
        /\ samples' = [samples EXCEPT ![si + 1] =
             SampleAfterInvalidRate(sample_data)]
  /\ si' = si + 1
  /\ UNCHANGED <<pc, sampling_rate, n_rms_multiplier, samples_is_dict,
                 spike_waveform_params, unitVars, filterVars, batchVars>>

\* loop iteration: neither filtered_signal nor signal_mv can be used
ProcessSampleNoSignal ==
  /\ pc = "samples_loop"
  /\ si < Len(samples)
  /\ LET sample_data == samples[si + 1]
     IN /\ SignalToProcess(sample_data) = NoneVal
        /\ samples' = [samples EXCEPT ![si + 1] =
             SampleAfterNoSignal(sample_data)]
  /\ si' = si + 1
  /\ UNCHANGED <<pc, sampling_rate, n_rms_multiplier, samples_is_dict,
                 spike_waveform_params, unitVars, filterVars, batchVars>>

\* return self.data
ReturnData ==
  /\ pc = "samples_loop"
  /\ si = Len(samples)
  /\ pc' = "returned"
  /\ UNCHANGED <<subjectVars, unitVars, filterVars, batchVars>>

Next ==
  \/ ReturnNoSamples
  \/ StampWaveformParams
  \/ ProcessSampleDetect
  \/ ProcessSampleInvalidRate
  \/ ProcessSampleNoSignal
  \/ ReturnData

Spec == Init /\ [][Next]_vars

\* ================================================= refractory filter
\* t lies inside the inclusive exclusion window of an event at time t1
InWindowOf(t, t1) ==
  DLe(DSub(t1, before_s), t) /\ DLe(t, DAdd(t1, after_s))

\* x + y without rounding: the mantissa may be longer than a double's
DSumExact(x, y) ==
  IF DIsZero(x) THEN y
  ELSE IF DIsZero(y) THEN x
  ELSE LET e == IF x.exp < y.exp THEN x.exp ELSE y.exp
           a == BigShl(x.man, x.exp - e)
           b == BigShl(y.man, y.exp - e)
           c == BigCmp(a, b)
           sum(neg, man) ==
             IF man = <<>> THEN DZero
             ELSE [neg |-> neg, man |-> BigShr(man, BigTrailingZeros(man)),
                   exp |-> e + BigTrailingZeros(man)]
       IN IF x.neg = y.neg THEN sum(x.neg, BigAdd(a, b))
          ELSE IF c >= 0 THEN sum(x.neg, BigSub(a, b))
          ELSE sum(y.neg, BigSub(b, a))

\* t lies inside the window of an event at time t1, taken in exact arithmetic
InExactWindowOf(t, t1) ==
  /\ DLe(DSumExact(t1, DNeg(before_s)), t)
  /\ DLe(t, DSumExact(t1, after_s))

\* the candidate at position k of the input was accepted by the loop so far
AcceptedSoFar(k) ==
  \E p \in 1..Len(filter_state.validated_spikes) :
    filter_state.validated_spikes[p].index = initial_spikes_sorted[k].index

\* C1: in the list returned by the refractory filter for a time-sorted input,
\* no event lies inside the inclusive window [t - before_s, t + after_s] of an
\* event that precedes it in the list (consecutive events included).
C1_NoAcceptedEventInsideEarlierWindow ==
  filter_result.k = "value" =>
    \A i, j \in 1..Len(filter_result.v) :
      i < j =>
        /\ ~InWindowOf(filter_result.v[j].time_s, filter_result.v[i].time_s)
        /\ ~InExactWindowOf(filter_result.v[j].time_s, filter_result.v[i].time_s)

\* the filter returned at least two events, one of them 0.010 s after an
\* event at 0.009 s with after_s = 0.001 s, just past the end of its window,
\* and rejected a candidate
C1_Witness ==
  /\ pc = "filtered"
  /\ filter_result.k = "value"
  /\ Len(filter_result.v) >= 2
  /\ Len(filter_result.v) < Len(initial_spikes_sorted)
  /\ after_s = Millis(1)
  /\ \E i \in 1..(Len(filter_result.v) - 1) :
       /\ filter_result.v[i].time_s = Millis(9)
       /\ filter_result.v[i + 1].time_s = Millis(10)

\* C2: a candidate is rejected exactly when its time lies, bounds included,
\* inside the window of a candidate accepted before it; only accepted
\* candidates own a window; the first candidate is accepted; and the accepted
\* candidates are what the filter returns.
C2_RejectedIffInsideAcceptedWindow ==
  pc \in {"filter", "filtered"} =>
    /\ \A k \in 1..fi :
         AcceptedSoFar(k) <=>
           ~\E j \in 1..(k - 1) :
              /\ AcceptedSoFar(j)
              /\ InWindowOf(initial_spikes_sorted[k].time_s,
                            initial_spikes_sorted[j].time_s)
    /\ fi >= 1 => AcceptedSoFar(1)
    /\ Len(filter_state.active_windows) = Len(filter_state.validated_spikes)
    /\ \A p \in 1..Len(filter_state.active_windows) :
         filter_state.active_windows[p] =
           <<DSub(filter_state.validated_spikes[p].time_s, before_s),
             DAdd(filter_state.validated_spikes[p].time_s, after_s)>>
    /\ filter_result.k = "value" =>
         /\ fi = Len(initial_spikes_sorted)
         /\ filter_result.v = filter_state.validated_spikes

\* the filter returned after rejecting a candidate and then accepting a later
\* one that lies inside the window the rejected candidate would have had
C2_Witness ==
  /\ pc = "filtered"
  /\ filter_result.k = "value"
  /\ \E k, m \in 1..Len(initial_spikes_sorted) :
       /\ k < m
       /\ ~AcceptedSoFar(k)
       /\ AcceptedSoFar(m)
       /\ InWindowOf(initial_spikes_sorted[m].time_s,
                     initial_spikes_sorted[k].time_s)

\* ========================================================== detector
\* detect_spikes_in_signal has just returned
DetectReturned == pc = "extract"

\* the sample at 0-based index i is below -n_rms_multiplier * RMS
Crosses(i) == BelowThresholdValue(signal[i + 1], signal, n_rms_multiplier)

\* the sample at 0-based index i has |value| above n_rms_multiplier * RMS
CrossesInAbsoluteValue(i) ==
  BelowThresholdValue(-Abs(signal[i + 1]), signal, n_rms_multiplier)

\* maximal runs <<first, last>> of consecutive indices satisfying Test
MaximalRuns(Test(_)) ==
  {r \in (0..(Len(signal) - 1)) \X (0..(Len(signal) - 1)) :
     /\ r[1] <= r[2]
     /\ \A i \in r[1]..r[2] : Test(i)
     /\ r[1] = 0 \/ ~Test(r[1] - 1)
     /\ r[2] = Len(signal) - 1 \/ ~Test(r[2] + 1)}

\* C4: detection returns exactly one candidate per maximal run of samples
\* below the negative threshold (runs touching either end of the signal and
\* runs of one sample included); its index is the first position of the
\* minimum of the run and its amplitude is the signal value there.
C4_OneCandidatePerRunAtFirstMinimum ==
  DetectReturned =>
    LET raw == detection.raw_detected
        runs == MaximalRuns(Crosses)
    IN /\ Len(raw) = Cardinality(runs)
       /\ \A r \in runs :
            \E k \in 1..Len(raw) :
              /\ raw[k].index \in r[1]..r[2]
              /\ \A i \in r[1]..r[2] : signal[raw[k].index + 1] <= signal[i + 1]
              /\ \A i \in r[1]..(raw[k].index - 1) :
                   signal[i + 1] > signal[raw[k].index + 1]
              /\ raw[k].amplitude_mv = signal[raw[k].index + 1]
              /\ \A k2 \in 1..Len(raw) :
                   raw[k2].index \in r[1]..r[2] => k2 = k

\* detection returned for a signal with a run at index 0, a run at the last
\* index, a run of one sample and a run of several samples
C4_Witness ==
  /\ pc = "extract"
  /\ Len(detection.raw_detected) >= 2
  /\ \E r1, r2, r3, r4 \in MaximalRuns(Crosses) :
       /\ r1[1] = 0
       /\ r2[2] = Len(signal) - 1
       /\ r3[1] = r3[2]
       /\ r4[1] < r4[2]

\* t * fs, taken exactly, is within 2^-53 of idx, relative to idx: t is
\* idx / fs up to the rounding of one division
WithinOneRounding(t, idx, fs) ==
  LET product == [neg |-> t.neg # (fs < 0),
                  man |-> BigMulSmall(t.man, Abs(fs)), exp |-> t.exp]
      bound == [neg |-> FALSE, man |-> BigFromInt(idx), exp |-> -MantissaBits]
  IN DMagCmp(DSumExact(product, DFromInt(-idx)), bound) <= 0

\* C5: the raw-detected list is sorted ascending by time_s and every event
\* has time_s == index / sampling_rate, the quotient of the code's doubles,
\* which is the exact quotient up to one rounding.
C5_RawSortedAndTimeIsIndexOverRate ==
  DetectReturned =>
    LET raw == detection.raw_detected
    IN /\ \A k \in 1..Len(raw) :
            /\ raw[k].time_s = DDiv(raw[k].index, sampling_rate)
            /\ WithinOneRounding(raw[k].time_s, raw[k].index, sampling_rate)
       /\ \A k \in 1..(Len(raw) - 1) : DLe(raw[k].time_s, raw[k + 1].time_s)

\* detection returned three candidates at a rate other than 1 kHz
C5_Witness ==
  /\ pc = "extract"
  /\ Len(detection.raw_detected) >= 3
  /\ sampling_rate # 1000

\* C6: for an empty signal and for a signal whose samples are all zero,
\* detection returns an empty raw-detected and an empty filtered list.
C6_DegenerateSignalYieldsNoEvents ==
  DetectReturned =>
    ((\A i \in 1..Len(signal) : signal[i] = 0) =>
       /\ detection.raw_detected = <<>>
       /\ detection.refractory_filtered = <<>>)

\* detection returned for a non-empty signal of zeros
C6_Witness ==
  /\ pc = "extract"
  /\ Len(signal) >= 2
  /\ \A i \in 1..Len(signal) : signal[i] = 0
  /\ detection = EmptyDetection

\* C7 as stated: every maximal run of samples with |value| above
\* n_rms_multiplier * RMS yields a candidate at the first position of the
\* largest |value| of the run, with the signed value there as amplitude.
C7_AbsolutePolarityCandidates ==
  DetectReturned =>
    \A r \in MaximalRuns(CrossesInAbsoluteValue) :
      \E k \in 1..Len(detection.raw_detected) :
        LET e == detection.raw_detected[k]
        IN /\ e.index \in r[1]..r[2]
           /\ e.amplitude_mv = signal[e.index + 1]
           /\ \A i \in r[1]..r[2] :
                signal[i + 1] * signal[i + 1] <= e.amplitude_mv * e.amplitude_mv
           /\ \A i \in r[1]..(e.index - 1) :
                signal[i + 1] * signal[i + 1] < e.amplitude_mv * e.amplitude_mv

\* C7 amended: detection has one polarity, negative-only: every candidate sits
\* on a sample below -n_rms_multiplier * RMS and has a negative amplitude, and
\* no sample with a value >= 0 is a candidate, however large.
C7_NegativePolarityOnly ==
  DetectReturned =>
    /\ \A k \in 1..Len(detection.raw_detected) :
         /\ detection.raw_detected[k].amplitude_mv < 0
         /\ Crosses(detection.raw_detected[k].index)
    /\ \A i \in 0..(Len(signal) - 1) :
         signal[i + 1] >= 0 =>
           \A k \in 1..Len(detection.raw_detected) :
             detection.raw_detected[k].index # i

\* detection returned candidates for a signal that also holds a positive
\* sample whose value is above n_rms_multiplier * RMS
C7_Witness ==
  /\ pc = "extract"
  /\ detection.raw_detected # <<>>
  /\ \E i \in 0..(Len(signal) - 1) :
       signal[i + 1] > 0 /\ CrossesInAbsoluteValue(i)

\* ================================================ waveform extractor
\* C10: every extracted waveform has samples_before + samples_after + 1
\* samples, samples_before = floor(before_ms * sampling_rate / 1000) and
\* samples_after likewise; the time axis has the length of the waveform and
\* is 0 at position samples_before.
C10_WaveformLengthAndAxis ==
  pc = "extracted" =>
    LET samples_before == (before_ms * sampling_rate) \div 1000
        samples_after == (after_ms * sampling_rate) \div 1000
        waveform_length == samples_before + samples_after + 1
    IN \A k \in 1..Len(waveforms_data.waveforms) :
         /\ Len(waveforms_data.waveforms[k]) = waveform_length
         /\ Len(waveforms_data.time_axis) = waveform_length
         /\ samples_before + 1 \in DOMAIN waveforms_data.time_axis
         /\ DIsZero(waveforms_data.time_axis[samples_before + 1])

\* ============================================== process_all_samples
\* the sample at position k was visited and its signal was analysed
Analysed(k) == k <= si /\ samples[k].spike_waveform_metadata.k = "value"

AnalysedSignal(k) == SignalToProcess(samples[k]).v
RawOf(k) == samples[k].spikes_raw_detected.v
FilteredOf(k) == samples[k].spikes_refractory_filtered.v

\* the waveform window, in samples, that process_all_samples asks for
WindowBefore == (before_ms_default * sampling_rate) \div 1000
WindowAfter == (after_ms_default * sampling_rate) \div 1000

\* the whole window around 0-based index idx lies inside the analysed signal
WindowFits(k, idx) ==
  idx >= WindowBefore /\ idx + WindowAfter < Len(AnalysedSignal(k))

SameEvent(f, r) ==
  f.time_s = r.time_s /\ f.amplitude_mv = r.amplitude_mv /\ f.index = r.index

\* C3: for every visited sample, each refractory-filtered event equals exactly
\* one raw-detected event in time_s, amplitude_mv and index, has no field
\* besides these and waveform, and the filtered events come in the order of
\* their raw-detected counterparts.
C3_FilteredIsOrderedSubsequenceOfRaw ==
  \A k \in 1..si :
    /\ samples[k].spikes_raw_detected.k = "value"
    /\ samples[k].spikes_refractory_filtered.k = "value"
    /\ \A i \in 1..Len(FilteredOf(k)) :
         /\ Cardinality({j \in 1..Len(RawOf(k)) :
                           SameEvent(FilteredOf(k)[i], RawOf(k)[j])}) = 1
         /\ DOMAIN FilteredOf(k)[i]
              \subseteq {"time_s", "amplitude_mv", "index", "waveform"}
    /\ \A i1, i2 \in 1..Len(FilteredOf(k)) :
         i1 < i2 =>
           \A j1, j2 \in 1..Len(RawOf(k)) :
             /\ SameEvent(FilteredOf(k)[i1], RawOf(k)[j1])
             /\ SameEvent(FilteredOf(k)[i2], RawOf(k)[j2])
             => j1 < j2

\* a visited sample whose filter rejected a raw-detected event and whose
\* filtered list holds an event with a waveform
C3_Witness ==
  \E k \in 1..si :
    /\ Analysed(k)
    /\ Len(FilteredOf(k)) < Len(RawOf(k))
    /\ \E i \in 1..Len(FilteredOf(k)) : "waveform" \in DOMAIN FilteredOf(k)[i]

\* C8: a refractory-filtered event whose window fits in the analysed signal
\* carries the waveform signal[idx - samples_before : idx + samples_after + 1]
\* cut around its own index.
C8_WaveformIsWindowAroundOwnIndex ==
  \A k \in 1..si :
    Analysed(k) =>
      \A i \in 1..Len(FilteredOf(k)) :
        LET e == FilteredOf(k)[i]
        IN WindowFits(k, e.index) =>
             /\ "waveform" \in DOMAIN e
             /\ e.waveform =
                  [j \in 1..(WindowBefore + WindowAfter + 1) |->
                     AnalysedSignal(k)[e.index - WindowBefore + j]]

\* a visited sample whose first filtered event has no waveform and is
\* followed by two events that carry different waveforms
C8_Witness ==
  \E k \in 1..si :
    /\ Analysed(k)
    /\ Len(FilteredOf(k)) >= 3
    /\ "waveform" \notin DOMAIN FilteredOf(k)[1]
    /\ "waveform" \in DOMAIN FilteredOf(k)[2]
    /\ "waveform" \in DOMAIN FilteredOf(k)[3]
    /\ FilteredOf(k)[2].waveform # FilteredOf(k)[3].waveform

\* C9: a refractory-filtered event whose window does not fit in the analysed
\* signal carries no waveform and stays in the list: the stored list holds the
\* events the refractory filter accepts from the raw-detected list, in the
\* same number and order.
C9_UnfitEventKeptWithoutWaveform ==
  \A k \in 1..si :
    Analysed(k) =>
      LET accepted == filter_spikes_iterative_refractory(RawOf(k), ref_before_s,
                                                         ref_after_s)
      IN /\ \A i \in 1..Len(FilteredOf(k)) :
              ~WindowFits(k, FilteredOf(k)[i].index) =>
                "waveform" \notin DOMAIN FilteredOf(k)[i]
         /\ Len(FilteredOf(k)) = Len(accepted)
         /\ \A i \in 1..Len(accepted) :
              FilteredOf(k)[i].index = accepted[i].index

\* a visited sample whose filtered list holds an event too close to the start
\* of the signal, one too close to its end, and one with a waveform
C9_Witness ==
  \E k \in 1..si :
    /\ Analysed(k)
    /\ \E i1, i2, i3 \in 1..Len(FilteredOf(k)) :
         /\ FilteredOf(k)[i1].index < WindowBefore
         /\ FilteredOf(k)[i2].index + WindowAfter >= Len(AnalysedSignal(k))
         /\ "waveform" \in DOMAIN FilteredOf(k)[i3]
         /\ "waveform" \notin DOMAIN FilteredOf(k)[i1]
         /\ "waveform" \notin DOMAIN FilteredOf(k)[i2]

\* --------------------- run_spike_detection_pipeline over an input directory
MaxFiles == 2        \* most input files in the directory

\* the signal of the subjects of a batch: two crossings 2 ms apart at 1000 Hz
BatchSignal == <<0, 0, -2, 0, -2, 0, 0, 0, 0>>

\* how a loaded file carries the "samples" key: a dictionary, the list [],
\* None, or no such key
SamplesEntries == {"dict", "list", "none", "missing"}

\* a subject as json.load returns it; is_dict is FALSE for a top-level list
SubjectData(is_dict, has_metadata, rate, samples_entry, sample_seq) ==
  [is_dict |-> is_dict,
   has_metadata |-> has_metadata,
   sampling_rate |-> rate,
   samples_entry |-> samples_entry,
   samples_is_dict |-> samples_entry = "dict",
   samples |-> sample_seq,
   spike_waveform_params |-> Absent,
   spike_detection_params |-> Absent]

BatchSamples ==
  <<NewSample(Holds(BatchSignal), Absent), NewSample(Absent, NoneVal)>>

\* subjects with a metadata block whose sampling_rate is the given field
RecordedAt(rate) == SubjectData(TRUE, TRUE, rate, "dict", BatchSamples)

SubjectRateFields ==
  {Holds(1000), Holds(0), Holds(-1000), NoneVal, Absent}

\* subjects without metadata, that are a list, whose samples entry is no
\* dictionary, and whose first sample is None instead of a dictionary
UnusualSubjects ==
  {SubjectData(TRUE, FALSE, Absent, "dict", BatchSamples),
   SubjectData(FALSE, FALSE, Absent, "missing", <<>>),
   SubjectData(TRUE, TRUE, Holds(1000), "dict", <<NoneVal>> \o BatchSamples)}
    \cup {SubjectData(TRUE, TRUE, Holds(1000), entry, <<>>) :
            entry \in SamplesEntries \ {"dict"}}

\* A file name is the sequence of the pieces its underscores separate:
\* Subject_1_processed_300-3000Hz.json has the base <<"Subject", "1">>, the
\* pieces before "_processed", and the filter part "300-3000Hz".
InputFileNames ==
  {[base |-> <<"Subject", "1">>, filter_part |-> ""],
   [base |-> <<"Subject", "1">>, filter_part |-> "300-3000Hz"],
   [base |-> <<"Subject", "2">>, filter_part |-> ""]}

InputFile(name, read, subject_data, write) ==
  [base |-> name.base, filter_part |-> name.filter_part, read |-> read,
   subject_data |-> subject_data, write |-> write]

\* what can happen to one input file: reading it fails, or it holds one of
\* the subjects; writing fails for some of the subjects that get a file
FileCases(name) ==
  {InputFile(name, r, RecordedAt(Holds(1000)), "ok") :
     r \in {"FileNotFoundError", "JSONDecodeError", "PermissionError"}}
    \cup {InputFile(name, "ok", RecordedAt(rate), "ok") :
            rate \in SubjectRateFields}
    \cup {InputFile(name, "ok", s, "ok") : s \in UnusualSubjects}
    \cup {InputFile(name, "ok", RecordedAt(Holds(1000)), w) :
            w \in {"open_IOError", "dump_IOError", "dump_TypeError"}}
    \cup {InputFile(name, "ok", RecordedAt(Absent), w) :
            w \in {"open_IOError", "dump_IOError"}}

\* glob results: files with distinct names, in any order
RECURSIVE FileLists(_)
FileLists(n) ==
  IF n = 0 THEN {<<>>}
  ELSE LET shorter == FileLists(n - 1)
       IN shorter \cup
          {Append(fs, f) :
             fs \in {l \in shorter : Len(l) = n - 1},
             f \in UNION {FileCases(name) : name \in InputFileNames}}

DistinctNames(fs) ==
  \A i, j \in 1..Len(fs) :
    i # j => <<fs[i].base, fs[i].filter_part>> # <<fs[j].base, fs[j].filter_part>>

\* the list is glob(*_processed.json) + glob(*_processed_*Hz.json): the files
\* without a filter part come first, each group in any order
GlobOrder(fs) ==
  \A i, j \in 1..Len(fs) :
    i < j => ~(fs[i].filter_part # "" /\ fs[j].filter_part = "")

\* SpikeDetector.__init__: the sampling rate kept in self.sampling_rate, or
\* the ValueError it raises
ValueError == [k |-> "ValueError"]

\* mutant: a sampling rate that is not positive is rejected as well
SpikeDetectorInitPositiveOnly(subject_data_dict) ==
  IF ~subject_data_dict.is_dict THEN ValueError
  ELSE LET rate == IF subject_data_dict.has_metadata
                      /\ subject_data_dict.sampling_rate.k = "value"
                   THEN subject_data_dict.sampling_rate
                   ELSE NoneVal
       IN IF rate = NoneVal \/ rate.v <= 0 THEN ValueError ELSE rate

SpikeDetectorInit(subject_data_dict) ==
  IF ~subject_data_dict.is_dict THEN ValueError
  ELSE LET rate == IF subject_data_dict.has_metadata
                      /\ subject_data_dict.sampling_rate.k = "value"
                   THEN subject_data_dict.sampling_rate
                   ELSE NoneVal
       IN IF rate = NoneVal THEN ValueError ELSE rate

\* one iteration of the samples loop on sample_data
ProcessedSample(sample_data, mult, fs) ==
  IF SignalToProcess(sample_data) = NoneVal
  THEN SampleAfterNoSignal(sample_data)
  ELSE IF fs <= 0 THEN SampleAfterInvalidRate(sample_data)
  ELSE SampleAfterDetect(sample_data, mult, fs)

\* process_all_samples raises: a sample that is no dictionary
ProcessRaises(data) ==
  /\ data.samples_is_dict
  /\ \E k \in 1..Len(data.samples) : data.samples[k] = NoneVal

\* self.data when process_all_samples returns
process_all_samples(data, mult, fs) ==
  IF ~data.samples_is_dict THEN data
  ELSE [data EXCEPT
          !.spike_waveform_params =
             IF data.has_metadata
             THEN Holds([before_ms |-> stamped_before_ms,
                         after_ms |-> stamped_after_ms])
             ELSE @,
          !.samples = [k \in 1..Len(data.samples) |->
                         ProcessedSample(data.samples[k], mult, fs)]]

\* mutant: the block records the default multiplier, not the one passed
SpikeDetectionParamsOfDefault(mult) ==
  [method |-> "rms_multiplier",
   n_rms_multiplier |-> default_n_rms_multiplier,
   refractory_period_before_s |-> stamped_refractory_before_s,
   refractory_period_after_s |-> stamped_refractory_after_s]

\* the spike_detection_params block; float(n) is the same number as n
SpikeDetectionParams(mult) ==
  [method |-> "rms_multiplier",
   n_rms_multiplier |-> mult,
   refractory_period_before_s |-> stamped_refractory_before_s,
   refractory_period_after_s |-> stamped_refractory_after_s]

\* data_with_spikes after the parameters were added to its metadata
WithDetectionParams(data, mult) ==
  IF data.has_metadata
  THEN [data EXCEPT !.spike_detection_params = Holds(SpikeDetectionParams(mult))]
  ELSE data

\* output file names, as the pieces their underscores separate
DetectedFileName(file) ==
  IF file.filter_part # ""
  THEN file.base \o <<"processed", file.filter_part, "spikes", "detected.json">>
  ELSE file.base \o <<"spikes", "detected.json">>

ErrorFileName(file) == file.base \o <<"spikes", "error.json">>

\* the output directory after open(path, 'w') and json.dump with the given
\* outcome: a failed open leaves it as it was, a failed dump leaves the file
\* truncated and partly written
AfterWrite(dir, name, content, outcome) ==
  IF outcome = "open_IOError" THEN dir
  ELSE {f \in dir : f.name # name} \cup
         {[name |-> name, complete |-> outcome = "ok", content |-> content,
           updated |-> FALSE, scored |-> {}]}

InitBatch ==
  /\ pc = "batch_start"
  /\ sampling_rate = 1000
  /\ n_rms_multiplier \in Multipliers
  /\ NoSubject
  /\ NoUnitCall
  /\ NoFilterCall
  /\ processed_files \in
       {fs \in FileLists(MaxFiles) : DistinctNames(fs) /\ GlobOrder(fs)}
  /\ file_pos = 0
  /\ output_dir = {}
  /\ report = <<>>

\* the file the loop is at
CurrentFile == processed_files[file_pos + 1]

InLoop == pc = "batch_loop" /\ file_pos < Len(processed_files)

\* the iteration ended with the given message and the loop goes on
NextFile(message) ==
  /\ file_pos' = file_pos + 1
  /\ report' = Append(report, message)
  /\ UNCHANGED <<pc, processed_files>>

\* an exception left run_spike_detection_pipeline
Raised(message) ==
  /\ pc' = "batch_raised"
  /\ file_pos' = file_pos + 1
  /\ report' = Append(report, message)
  /\ UNCHANGED <<processed_files, output_dir>>

BatchUntouched == UNCHANGED <<subjectVars, unitVars, filterVars>>

\* no input file matches the patterns
NoFilesFound ==
  /\ pc = "batch_start"
  /\ processed_files = <<>>
  /\ pc' = "batch_returned"
  /\ UNCHANGED <<batchVars>>
  /\ BatchUntouched

FilesFound ==
  /\ pc = "batch_start"
  /\ processed_files # <<>>
  /\ pc' = "batch_loop"
  /\ UNCHANGED <<batchVars>>
  /\ BatchUntouched

\* open / json.load fails with an exception the loop catches
FileReadSkipped ==
  /\ InLoop
  /\ CurrentFile.read \in {"FileNotFoundError", "JSONDecodeError"}
  /\ NextFile("read_error_skipping")
  /\ UNCHANGED output_dir
  /\ BatchUntouched

\* open / json.load fails with another exception
FileReadRaises ==
  /\ InLoop
  /\ CurrentFile.read \notin {"ok", "FileNotFoundError", "JSONDecodeError"}
  /\ Raised(CurrentFile.read)
  /\ BatchUntouched

\* no subject_metadata or no sampling_rate in it: the data goes to an error file
FileWithoutSamplingRate ==
  /\ InLoop
  /\ CurrentFile.read = "ok"
  /\ LET subject_data == CurrentFile.subject_data
     IN /\ ~subject_data.has_metadata \/ subject_data.sampling_rate = Absent
        /\ output_dir' = AfterWrite(output_dir, ErrorFileName(CurrentFile),
                                    subject_data, CurrentFile.write)
  /\ NextFile(IF CurrentFile.write = "ok" THEN "saved_original_data"
              ELSE "could_not_write_error_file")
  /\ BatchUntouched

\* SpikeDetector(subject_data) raises ValueError
FileConstructorRejects ==
  /\ InLoop
  /\ CurrentFile.read = "ok"
  /\ LET subject_data == CurrentFile.subject_data
     IN /\ subject_data.has_metadata
        /\ subject_data.sampling_rate # Absent
        /\ SpikeDetectorInit(subject_data) = ValueError
  /\ NextFile("error_initializing_skipping")
  /\ UNCHANGED output_dir
  /\ BatchUntouched

\* process_all_samples raises
FileProcessRaises ==
  /\ InLoop
  /\ CurrentFile.read = "ok"
  /\ LET subject_data == CurrentFile.subject_data
     IN /\ subject_data.has_metadata
        /\ subject_data.sampling_rate # Absent
        /\ SpikeDetectorInit(subject_data) # ValueError
        /\ ProcessRaises(subject_data)
  /\ Raised("TypeError")
  /\ BatchUntouched

\* detection ran, the parameters were added and the result was written, or
\* the write failed with an exception the loop catches
FileProcessed ==
  /\ InLoop
  /\ CurrentFile.read = "ok"
  /\ LET subject_data == CurrentFile.subject_data
         rate == SpikeDetectorInit(subject_data)
     IN /\ subject_data.has_metadata
        /\ subject_data.sampling_rate # Absent
        /\ rate # ValueError
        /\ ~ProcessRaises(subject_data)
        /\ output_dir' =
             AfterWrite(output_dir, DetectedFileName(CurrentFile),
                        WithDetectionParams(
                          process_all_samples(subject_data, n_rms_multiplier,
                                              rate.v),
                          n_rms_multiplier),
                        CurrentFile.write)
  /\ NextFile(CASE CurrentFile.write = "ok" -> "saved_spike_data"
                [] CurrentFile.write = "dump_TypeError" -> "serialization_error"
                [] OTHER -> "could_not_write_spike_data")
  /\ BatchUntouched

\* the loop is over
BatchReturn ==
  /\ pc = "batch_loop"
  /\ file_pos = Len(processed_files)
  /\ pc' = "batch_returned"
  /\ UNCHANGED <<batchVars>>
  /\ BatchUntouched

\* ---- calculate_isolation_scores on the two directories
\* spikes_data_dir.glob("Subject_*_spikes_detected.json")
IsSubjectSpikesName(name) ==
  /\ Len(name) >= 4
  /\ name[1] = "Subject"
  /\ SubSeq(name, Len(name) - 1, Len(name)) = <<"spikes", "detected.json">>

\* file_path.name.split("_")[1] of the files found
SubjectNumbers(dir) == {o.name[2] : o \in {f \in dir : IsSubjectSpikesName(f.name)}}

\* the spike file the scoring stage opens for a subject number
SpikesFileOf(subject_num) == <<"Subject", subject_num, "spikes", "detected.json">>

\* processed_dir / Subject_N_processed_300-3000Hz.json among the input files
BandFilteredInputs(files, subject_num) ==
  {files[i] : i \in {j \in 1..Len(files) :
                       /\ files[j].base = <<"Subject", subject_num>>
                       /\ files[j].filter_part = "300-3000Hz"}}

\* all(f.exists() for f in [spikes_file, processed_file])
BothFilesExist(dir, files, subject_num) ==
  /\ \E o \in dir : o.name = SpikesFileOf(subject_num)
  /\ \E f \in BandFilteredInputs(files, subject_num) :
       f.read # "FileNotFoundError"

\* load_json_data raises on the spike file or on the band-filtered input
LoadRaises(spikes_entry, processed_file) ==
  ~spikes_entry.complete \/ processed_file.read # "ok"

\* processed_data.get('samples', {}).keys() raises AttributeError
KeysRaise(processed_data) ==
  ~processed_data.is_dict \/ processed_data.samples_entry \in {"list", "none"}

\* the keys the samples loop goes through, as positions
SampleKeys(processed_data) ==
  IF processed_data.samples_entry = "dict"
  THEN 1..Len(processed_data.samples)
  ELSE {}

\* sample_key not in spikes_data.get('samples', {}) raises
MembershipRaises(spikes_data) ==
  ~spikes_data.is_dict \/ spikes_data.samples_entry = "none"

\* the keys for which process_single_sample is called
SharedKeys(processed_data, spikes_data) ==
  IF spikes_data.samples_entry = "dict"
  THEN SampleKeys(processed_data) \cap (1..Len(spikes_data.samples))
  ELSE {}

\* not raw_analog, not spikes: the field is missing, None or an empty list
Falsy(field) == field.k # "value" \/ field.v = <<>>

\* process_single_sample raises AttributeError: the sample is None
SingleSampleRaises(processed_data, spikes_data, sample_key) ==
  \/ processed_data.samples[sample_key] = NoneVal
  \/ /\ ~Falsy(processed_data.samples[sample_key].filtered_signal)
     /\ spikes_data.samples[sample_key] = NoneVal

\* process_single_sample gets to calculator.calculate_isolation_scores
CallsCalculator(processed_data, spikes_data, sample_key) ==
  /\ ~SingleSampleRaises(processed_data, spikes_data, sample_key)
  /\ ~Falsy(processed_data.samples[sample_key].filtered_signal)
  /\ ~Falsy(spikes_data.samples[sample_key].spikes_refractory_filtered)

\* the MATLAB engine returns the scores of a sample or raises
CalculatorOutcomes == {"returns", "raises"}

\* save_json_data on the spike file
SaveOutcomes == {"ok", "open_IOError", "dump_IOError"}

\* an exception is raised between loading the two files and the end of the
\* samples loop
SubjectRaises(spikes_entry, processed_file, calculator) ==
  \/ LoadRaises(spikes_entry, processed_file)
  \/ KeysRaise(processed_file.subject_data)
  \/ /\ SampleKeys(processed_file.subject_data) # {}
     /\ MembershipRaises(spikes_entry.content)
  \/ \E sample_key \in SharedKeys(processed_file.subject_data,
                                  spikes_entry.content) :
       \/ SingleSampleRaises(processed_file.subject_data, spikes_entry.content,
                             sample_key)
       \/ /\ calculator = "raises"
          /\ CallsCalculator(processed_file.subject_data,
                             spikes_entry.content, sample_key)

\* the samples whose isolation_scores were set
ScoredKeys(processed_data, spikes_data) ==
  {sample_key \in SharedKeys(processed_data, spikes_data) :
     CallsCalculator(processed_data, spikes_data, sample_key)}

\* the spike file of a subject after the try block: as it was when anything
\* raised, rewritten with the scores otherwise
SpikesFileAfterSubject(spikes_entry, processed_file, calculator, save) ==
  IF SubjectRaises(spikes_entry, processed_file, calculator)
       \/ save = "open_IOError"
  THEN spikes_entry
  ELSE IF save = "dump_IOError"
  THEN [spikes_entry EXCEPT !.complete = FALSE]
  ELSE [spikes_entry EXCEPT
          !.updated = TRUE,
          !.scored = ScoredKeys(processed_file.subject_data, spikes_entry.content)]

\* the subject numbers whose iteration gets to the try block
SubjectsTried(dir, files) ==
  {num \in SubjectNumbers(dir) : BothFilesExist(dir, files, num)}

\* the output directory after the loop over the subject numbers
AfterScoring(dir, files, calculator, save) ==
  {IF \E num \in SubjectsTried(dir, files) : o.name = SpikesFileOf(num)
   THEN SpikesFileAfterSubject(
          o, CHOOSE f \in BandFilteredInputs(files, o.name[2]) : TRUE,
          calculator[o.name[2]], save[o.name[2]])
   ELSE o : o \in dir}

\* the scoring stage runs after the detection stage has ended
CalculateIsolationScores ==
  /\ pc \in {"batch_returned", "batch_raised"}
  /\ \E calculator \in [SubjectsTried(output_dir, processed_files) ->
                           CalculatorOutcomes],
        save \in [SubjectsTried(output_dir, processed_files) -> SaveOutcomes] :
       output_dir' = AfterScoring(output_dir, processed_files, calculator, save)
  /\ pc' = "scored"
  /\ UNCHANGED <<processed_files, file_pos, report>>
  /\ BatchUntouched

\* IsolationScoreCalculator() raises: the MATLAB engine does not start
IsolationCalculatorFails ==
  /\ pc \in {"batch_returned", "batch_raised"}
  /\ pc' = "scoring_raised"
  /\ UNCHANGED <<batchVars>>
  /\ BatchUntouched

NextBatch ==
  \/ CalculateIsolationScores
  \/ IsolationCalculatorFails
  \/ NoFilesFound
  \/ FilesFound
  \/ FileReadSkipped
  \/ FileReadRaises
  \/ FileWithoutSamplingRate
  \/ FileConstructorRejects
  \/ FileProcessRaises
  \/ FileProcessed
  \/ BatchReturn

SpecBatch == InitBatch /\ [][NextBatch]_vars

\* ---- claims about the output fields of every sample ----

\* process_all_samples returned after going through the samples dictionary
ReturnedFromSamplesLoop == pc = "returned" /\ samples_is_dict

\* C11: after process_all_samples returns for a subject whose samples entry
\* is a dictionary, every sample holds spikes_raw_detected,
\* spikes_refractory_filtered and spike_waveform_metadata (a dictionary or
\* None), on every path.
C11_EverySampleHoldsThreeOutputFields ==
  ReturnedFromSamplesLoop =>
    \A k \in 1..Len(samples) :
      /\ samples[k].spikes_raw_detected.k = "value"
      /\ samples[k].spikes_refractory_filtered.k = "value"
      /\ samples[k].spike_waveform_metadata.k \in {"value", "none"}

\* the sample has a signal to analyse in one of its two fields
HasSignal(sample_data) ==
  Usable(sample_data.filtered_signal) \/ Usable(sample_data.signal_mv)

\* C12: a visited sample whose sampling rate is not positive or that has no
\* usable signal holds empty raw-detected and refractory-filtered lists, and
\* process_all_samples returns only after every sample of the dictionary got
\* its lists.
C12_SkippedSampleEmptyAndLoopGoesOn ==
  /\ \A k \in 1..si :
       (sampling_rate <= 0 \/ ~HasSignal(samples[k])) =>
         /\ samples[k].spikes_raw_detected = Holds(<<>>)
         /\ samples[k].spikes_refractory_filtered = Holds(<<>>)
  /\ ReturnedFromSamplesLoop =>
       \A k \in 1..Len(samples) :
         /\ samples[k].spikes_raw_detected.k = "value"
         /\ samples[k].spikes_refractory_filtered.k = "value"

\* process_all_samples returned for a subject with an invalid sampling rate
\* and two samples: the first has a signal, the second has none, and both got
\* their empty lists
C12_Witness ==
  /\ ReturnedFromSamplesLoop
  /\ sampling_rate <= 0
  /\ Len(samples) = 2
  /\ HasSignal(samples[1])
  /\ ~HasSignal(samples[2])
  /\ \A k \in 1..2 : samples[k].spikes_raw_detected = Holds(<<>>)
  /\ \A k \in 1..2 : samples[k].spikes_refractory_filtered = Holds(<<>>)

\* the signal the selection rule names for a sample that has one
SelectedByRule(sample_data) ==
  IF sample_data.filtered_signal.k = "value"
       /\ Len(sample_data.filtered_signal.v) > 0
  THEN sample_data.filtered_signal.v
  ELSE sample_data.signal_mv.v

\* C14: under a valid sampling rate, a visited sample is analysed on
\* filtered_signal when that field is present, not None and non-empty, and
\* otherwise on signal_mv when that one is; its raw-detected events, its
\* filtered events and the waveforms all come from that one signal. A sample
\* with neither signal holds empty lists and None metadata.
C14_SelectedSignalIsAnalysed ==
  \A k \in 1..si :
    sampling_rate > 0 =>
      IF HasSignal(samples[k])
      THEN LET chosen == SelectedByRule(samples[k])
               found == detect_spikes_in_signal(chosen, n_rms_multiplier,
                                                sampling_rate)
           IN /\ RawOf(k) = found.raw_detected
              /\ Len(FilteredOf(k)) = Len(found.refractory_filtered)
              /\ samples[k].spike_waveform_metadata.k = "value"
              /\ \A i \in 1..Len(FilteredOf(k)) :
                   LET e == FilteredOf(k)[i]
                   IN /\ SameEvent(e, found.refractory_filtered[i])
                      /\ "waveform" \in DOMAIN e =>
                           e.waveform =
                             [j \in 1..(WindowBefore + WindowAfter + 1) |->
                                chosen[e.index - WindowBefore + j]]
      ELSE /\ RawOf(k) = <<>>
           /\ FilteredOf(k) = <<>>
           /\ samples[k].spike_waveform_metadata = NoneVal

\* a visited sample holding both signals, whose events and waveform are those
\* of filtered_signal and differ from what signal_mv would give
C14_Witness ==
  \E k \in 1..si :
    /\ sampling_rate > 0
    /\ Usable(samples[k].filtered_signal)
    /\ Usable(samples[k].signal_mv)
    /\ RawOf(k) # detect_spikes_in_signal(samples[k].signal_mv.v,
                     n_rms_multiplier, sampling_rate).raw_detected
    /\ \E i \in 1..Len(FilteredOf(k)) : "waveform" \in DOMAIN FilteredOf(k)[i]

\* the two input signals of a sample
InputsOf(sample_data) ==
  <<sample_data.filtered_signal, sample_data.signal_mv>>

\* the three output fields of a sample
OutputsOf(sample_data) ==
  <<sample_data.spikes_raw_detected, sample_data.spikes_refractory_filtered,
    sample_data.spike_waveform_metadata>>

\* what one sample alone yields under the subject's rate and the multiplier
AloneOutputs(sample_data) ==
  LET alone == NewSample(sample_data.filtered_signal, sample_data.signal_mv)
  IN IF ~HasSignal(alone) THEN OutputsOf(SampleAfterNoSignal(alone))
     ELSE IF sampling_rate <= 0 THEN OutputsOf(SampleAfterInvalidRate(alone))
     ELSE OutputsOf(SampleAfterDetect(alone, n_rms_multiplier, sampling_rate))

\* C16: the output fields of a visited sample are those its own two signals
\* yield under the subject's sampling rate and the multiplier, whatever the
\* other samples hold and whatever its place in the iteration; two visited
\* samples with the same signals hold the same output fields.
C16_OutputsDependOnOwnSignalsOnly ==
  /\ \A k \in 1..si : OutputsOf(samples[k]) = AloneOutputs(samples[k])
  /\ \A j, k \in 1..si :
       InputsOf(samples[j]) = InputsOf(samples[k]) =>
         OutputsOf(samples[j]) = OutputsOf(samples[k])

\* two visited samples with different signals, both with events, the second
\* one holding fewer raw-detected events than the first
C16_Witness ==
  /\ si = 2
  /\ Analysed(1)
  /\ Analysed(2)
  /\ InputsOf(samples[1]) # InputsOf(samples[2])
  /\ Len(RawOf(1)) > Len(RawOf(2))
  /\ Len(RawOf(2)) > 0

\* C17: no step of process_all_samples changes a sample's signal_mv or
\* filtered_signal, the number of samples, or the subject's sampling rate.
C17_InputsNeverModified ==
  [][/\ sampling_rate' = sampling_rate
     /\ Len(samples') = Len(samples)
     /\ \A k \in 1..Len(samples) :
          InputsOf(samples'[k]) = InputsOf(samples[k])]_vars

\* process_all_samples returned after analysing a sample that has only
\* signal_mv, whose filtered list holds an event with a waveform
C17_Witness ==
  /\ ReturnedFromSamplesLoop
  /\ \E k \in 1..Len(samples) :
       /\ Analysed(k)
       /\ samples[k].filtered_signal = Absent
       /\ Usable(samples[k].signal_mv)
       /\ \E i \in 1..Len(FilteredOf(k)) : "waveform" \in DOMAIN FilteredOf(k)[i]

\* ---- claims about the orchestrator ----

\* input files the orchestrator is done with
Handled == 1..file_pos

\* the constructor was called on the subject of the file
ConstructorCalled(file) ==
  /\ file.read = "ok"
  /\ file.subject_data.has_metadata
  /\ file.subject_data.sampling_rate # Absent

\* the file has no sampling rate entry at all
NoRateEntry(file) ==
  /\ file.read = "ok"
  /\ ~file.subject_data.has_metadata \/ file.subject_data.sampling_rate = Absent

\* the detection outputs written for the file
DetectedOutputs(file) == {o \in output_dir : o.name = DetectedFileName(file)}

\* no detection ran on any sample of the subject
NoDetectionIn(content) ==
  \A k \in 1..Len(content.samples) :
    /\ content.samples[k].spikes_raw_detected = Holds(<<>>)
    /\ content.samples[k].spikes_refractory_filtered = Holds(<<>>)

\* C13 as stated: a subject whose sampling rate is None, 0 or negative is
\* rejected by the constructor, which the orchestrator reports as an
\* initialisation error, and nothing is detected or written for it.
C13_NonPositiveRateRejectedAtConstruction ==
  \A i \in Handled :
    LET file == processed_files[i]
        rate == file.subject_data.sampling_rate
    IN (ConstructorCalled(file) /\ (rate = NoneVal \/ rate.v <= 0)) =>
         /\ report[i] = "error_initializing_skipping"
         /\ DetectedOutputs(file) = {}

\* C13 amended: a subject without a sampling rate entry never reaches
\* detection; one whose sampling rate is None is rejected by the constructor
\* and nothing is written for it; one whose sampling rate is 0 or negative is
\* accepted by the constructor, and its written result keeps that rate and
\* holds empty event lists for every sample.
C13_OnlyMissingRateRejectedAtConstruction ==
  \A i \in Handled :
    LET file == processed_files[i]
        rate == file.subject_data.sampling_rate
    IN /\ NoRateEntry(file) =>
            /\ report[i] \in {"saved_original_data", "could_not_write_error_file"}
            /\ DetectedOutputs(file) = {}
       /\ (ConstructorCalled(file) /\ rate = NoneVal) =>
            /\ report[i] = "error_initializing_skipping"
            /\ DetectedOutputs(file) = {}
       /\ (ConstructorCalled(file) /\ rate # NoneVal /\ rate.v <= 0) =>
            /\ report[i] = "saved_spike_data"
            /\ \E o \in DetectedOutputs(file) :
                 /\ o.content.sampling_rate = rate
                 /\ NoDetectionIn(o.content)

\* one handled subject with a None rate was rejected and another with a rate
\* of 0 or below was written with empty lists
C13_Witness ==
  \E i, j \in Handled :
    /\ ConstructorCalled(processed_files[i])
    /\ processed_files[i].subject_data.sampling_rate = NoneVal
    /\ report[i] = "error_initializing_skipping"
    /\ ConstructorCalled(processed_files[j])
    /\ processed_files[j].subject_data.sampling_rate \in {Holds(0), Holds(-1000)}
    /\ \E o \in DetectedOutputs(processed_files[j]) : NoDetectionIn(o.content)

\* the events and waveforms of an analysed sample are those the recorded
\* parameters give on its signal
ReproducedFrom(sample_data, params, wparams, fs) ==
  LET sig == SignalToProcess(sample_data).v
      raw == detect_spikes_in_signal(sig, params.n_rms_multiplier, fs).raw_detected
      kept == filter_spikes_iterative_refractory(raw,
                params.refractory_period_before_s,
                params.refractory_period_after_s)
      stored == sample_data.spikes_refractory_filtered.v
  IN /\ sample_data.spikes_raw_detected = Holds(raw)
     /\ Len(stored) = Len(kept)
     /\ \A i \in 1..Len(kept) :
          /\ stored[i].index = kept[i].index
          /\ "waveform" \in DOMAIN stored[i] =>
               Len(stored[i].waveform) =
                 SamplesFor(wparams.before_ms, fs)
                   + SamplesFor(wparams.after_ms, fs) + 1

\* C15: every completely written detection result carries one
\* spike_detection_params block whose n_rms_multiplier is the multiplier
\* passed to the run and whose refractory periods are those the filter used;
\* when its samples were gone through it carries one spike_waveform_params
\* block whose before_ms / after_ms are those used for extraction; every
\* analysed sample holds the events and waveform lengths these recorded
\* values give.
C15_RecordedParamsAreTheOnesUsed ==
  \A i \in Handled :
    \A o \in DetectedOutputs(processed_files[i]) :
      o.complete =>
        LET data == o.content
            params == data.spike_detection_params.v
            wparams == data.spike_waveform_params.v
        IN /\ data.spike_detection_params.k = "value"
           /\ params.n_rms_multiplier = n_rms_multiplier
           /\ params.refractory_period_before_s = ref_before_s
           /\ params.refractory_period_after_s = ref_after_s
           /\ data.samples_is_dict =>
                /\ data.spike_waveform_params.k = "value"
                /\ wparams.before_ms = before_ms_default
                /\ wparams.after_ms = after_ms_default
                /\ \A k \in 1..Len(data.samples) :
                     data.samples[k].spike_waveform_metadata.k = "value" =>
                       ReproducedFrom(data.samples[k], params, wparams,
                                      data.sampling_rate.v)

\* a run with multiplier 2 wrote a result whose first sample holds two raw
\* events, one filtered event and a waveform
C15_Witness ==
  /\ n_rms_multiplier = 2
  /\ \E i \in Handled :
       \E o \in DetectedOutputs(processed_files[i]) :
         /\ o.complete
         /\ o.content.spike_waveform_params.k = "value"
         /\ Len(o.content.samples[1].spikes_raw_detected.v) = 2
         /\ Len(o.content.samples[1].spikes_refractory_filtered.v) = 1
         /\ "waveform" \in
              DOMAIN o.content.samples[1].spikes_refractory_filtered.v[1]

\* the run is over, by return or by an exception
BatchEnded == pc \in {"batch_returned", "batch_raised"}

\* nothing is wrong with the file itself
SoundFile(file) ==
  /\ ConstructorCalled(file)
  /\ SpikeDetectorInit(file.subject_data) # ValueError
  /\ ~ProcessRaises(file.subject_data)
  /\ file.write = "ok"

\* C18: when the run is over every input file was gone through, and every
\* input file that has nothing wrong itself got its own completely written
\* result, whatever went wrong for the other files.
C18_FailedSubjectNeverAbortsBatch ==
  BatchEnded =>
    /\ file_pos = Len(processed_files)
    /\ \A i \in 1..Len(processed_files) :
         SoundFile(processed_files[i]) =>
           \E o \in DetectedOutputs(processed_files[i]) : o.complete

\* ---- the filter against its pruning variant ----

\* the state of the pruning variant after the candidates visited so far
PrunedSoFar ==
  PruningLoop(NoWindows, SubSeq(initial_spikes_sorted, 1, fi), before_s, after_s)

\* C20: on a time-sorted candidate list, at every point of the loop the
\* filter that keeps every window has accepted exactly the events, in the
\* same order, that the variant dropping each window ended before the
\* current candidate's time has accepted, and so returns the same list.
C20_PruningKeepsAcceptedEvents ==
  /\ pc \in {"filter", "filtered"} =>
       filter_state.validated_spikes = PrunedSoFar.validated_spikes
  /\ pc = "filtered" => filter_result.v = PrunedSoFar.validated_spikes

\* the filter returned after rejecting a candidate and accepting three, and
\* the pruning variant ended with fewer windows than the filter kept
C20_Witness ==
  /\ pc = "filtered"
  /\ Len(filter_result.v) = 3
  /\ Len(initial_spikes_sorted) = 4
  /\ Len(PrunedSoFar.active_windows) < Len(filter_state.active_windows)

\* ---- claims about the spike scenarios ----

\* the single event of the scenario: index 500, 0.5 s, -10
MidSpike ==
  [time_s |-> [neg |-> FALSE, man |-> <<1>>, exp |-> -1], amplitude_mv |-> -10,
   index |-> 500]

\* detect was called on the 1000-sample signal with -10 at index 500
MidSpikeDetected ==
  /\ pc \in {"extract", "extracted"}
  /\ signal = SingleSpikeSignal(1000, 500, -10)
  /\ sampling_rate = 1000
  /\ n_rms_multiplier = 4

\* C21: on 1000 samples at 1000 Hz that are zero except signal[500] = -10,
\* with multiplier 4, the raw-detected list is the single event (index 500,
\* 0.5 s, -10) and the filtered list is the same; extraction with before_ms 2
\* and after_ms 3 gives it a waveform of 6 samples, which process_all_samples
\* attaches to the event.
C21_SingleSpikeScenario ==
  MidSpikeDetected =>
    /\ detection.raw_detected = <<MidSpike>>
    /\ detection.refractory_filtered = <<MidSpike>>
    /\ (pc = "extracted" /\ before_ms = 2 /\ after_ms = 3) =>
         /\ waveforms_data.spike_indices = <<500>>
         /\ Len(waveforms_data.waveforms) = 1
         /\ Len(waveforms_data.waveforms[1]) = 6
         /\ DetectedFields(signal, 4, 1000).spikes_refractory_filtered.v =
              <<[time_s |-> MidSpike.time_s, amplitude_mv |-> -10,
                 index |-> 500, waveform |-> waveforms_data.waveforms[1]]>>

\* the scenario after the extraction with before_ms 2 and after_ms 3
C21_Witness ==
  /\ MidSpikeDetected
  /\ pc = "extracted"
  /\ before_ms = 2
  /\ after_ms = 3
  /\ waveforms_data.waveforms = <<<<0, 0, -10, 0, 0, 0>>>>

\* detect returned exactly two candidates
TwoCandidates == pc \in {"extract", "extracted"} /\ Len(detection.raw_detected) = 2

\* the two peaks are num / den seconds apart: time_s is index / sampling_rate,
\* so their indices differ by that many seconds' worth of samples
PeakGapIs(num, den) ==
  (detection.raw_detected[2].index - detection.raw_detected[1].index) * den
    = num * sampling_rate

\* C22: with the windows detect_spikes_in_signal uses, of two candidates
\* whose peaks are 0.0005 s apart only the first is kept by the refractory
\* filter, and of two candidates whose peaks are 0.01 s apart both are kept.
C22_DefaultWindowsScenarios ==
  TwoCandidates =>
    /\ PeakGapIs(5, 10000) =>
         detection.refractory_filtered = <<detection.raw_detected[1]>>
    /\ PeakGapIs(1, 100) =>
         detection.refractory_filtered = detection.raw_detected

\* detect returned two candidates 0.0005 s apart at 10000 Hz and kept one
C22_Witness ==
  /\ TwoCandidates
  /\ PeakGapIs(5, 10000)
  /\ sampling_rate = 10000
  /\ Len(detection.refractory_filtered) = 1

\* ---- claims about the files of the output directory ----

\* the detection results in the output directory
DetectedFiles ==
  {o \in output_dir :
     \E i \in 1..Len(processed_files) :
       o.name = DetectedFileName(processed_files[i])}

\* C23: at every point of a run, every detection result present in the
\* output directory holds the complete serialized record, also when
\* serialization or the write failed part-way.
C23_NoPartiallyWrittenOutput ==
  \A o \in DetectedFiles : o.complete

\* ---- claims about what the filter accepts ----

\* positions in initial_spikes_sorted of the candidates accepted so far
AcceptedPositions ==
  {filter_state.validated_spikes[k].index + 1 :
     k \in 1..Len(filter_state.validated_spikes)}

\* the accepted position closest before position i
LastAcceptedBefore(i) ==
  CHOOSE j \in AcceptedPositions :
    j < i /\ \A h \in AcceptedPositions : h < i => h <= j

\* C24: on a time-sorted list with before_s >= 0, a visited candidate is
\* accepted exactly when no candidate was accepted before it or its time is
\* greater than the time of the most recently accepted one plus after_s (the
\* sum the code computes); the accepted list is the one every other
\* before_s >= 0 gives, and consecutive accepted events are more than after_s
\* apart, also when the distance is taken exactly.
C24_AcceptanceDependsOnAfterOnly ==
  pc \in {"filter", "filtered"} =>
    /\ \A i \in 1..fi :
         i \in AcceptedPositions <=>
           \/ \A j \in AcceptedPositions : j >= i
           \/ /\ \E j \in AcceptedPositions : j < i
              /\ DLt(DAdd(initial_spikes_sorted[LastAcceptedBefore(i)].time_s,
                          after_s),
                     initial_spikes_sorted[i].time_s)
    /\ \A b \in WindowLengths :
         filter_state.validated_spikes =
           FilterLoop(NoWindows, SubSeq(initial_spikes_sorted, 1, fi), b,
                      after_s).validated_spikes
    /\ \A k \in 1..(Len(filter_state.validated_spikes) - 1) :
         DLt(DSumExact(filter_state.validated_spikes[k].time_s, after_s),
             filter_state.validated_spikes[k + 1].time_s)

\* the filter returned two consecutive accepted events that are more than
\* after_s but not more than before_s + after_s apart, after a rejection
C24_Witness ==
  /\ pc = "filtered"
  /\ ~DIsZero(before_s)
  /\ Len(filter_result.v) < Len(initial_spikes_sorted)
  /\ \E k \in 1..(Len(filter_result.v) - 1) :
       /\ DLt(DSumExact(filter_result.v[k].time_s, after_s),
              filter_result.v[k + 1].time_s)
       /\ DLe(filter_result.v[k + 1].time_s,
              DSumExact(filter_result.v[k].time_s,
                        DSumExact(before_s, after_s)))

\* C25: filtering the list the filter returned, with the same before_s and
\* after_s, returns that list unchanged.
C25_FilterIsIdempotent ==
  pc = "filtered" =>
    filter_spikes_iterative_refractory(filter_result.v, before_s, after_s)
      = filter_result.v

\* the filter returned at least two events after rejecting at least two
C25_Witness ==
  /\ pc = "filtered"
  /\ Len(filter_result.v) >= 2
  /\ Len(filter_result.v) + 2 <= Len(initial_spikes_sorted)
  /\ ~DIsZero(after_s)

\* ---- claims about the events a sample holds ----

\* C26: every waveform attached to a refractory-filtered event holds, at
\* position samples_before, the event's amplitude_mv, which is the value of
\* the analysed signal at the event's index.
C26_WaveformAlignedOnPeak ==
  \A k \in 1..si :
    Analysed(k) =>
      \A i \in 1..Len(FilteredOf(k)) :
        LET e == FilteredOf(k)[i]
        IN "waveform" \in DOMAIN e =>
             /\ e.waveform[WindowBefore + 1] = e.amplitude_mv
             /\ e.waveform[WindowBefore + 1] = AnalysedSignal(k)[e.index + 1]

\* a visited sample with a waveform around a peak of -2 that is not the
\* first sample of its run
C26_Witness ==
  \E k \in 1..si :
    /\ Analysed(k)
    /\ \E i \in 1..Len(FilteredOf(k)) :
         LET e == FilteredOf(k)[i]
         IN /\ "waveform" \in DOMAIN e
            /\ e.amplitude_mv = -2
            /\ WindowBefore >= 1
            /\ e.waveform[WindowBefore] = -1

\* C27: running process_all_samples again, with the same multiplier, on the
\* record it produced leaves every visited sample and the waveform
\* parameters of the subject metadata as the first run left them.
C27_SecondRunChangesNothing ==
  /\ \A k \in 1..si :
       ProcessedSample(samples[k], n_rms_multiplier, sampling_rate) = samples[k]
  /\ ReturnedFromSamplesLoop =>
       /\ spike_waveform_params =
            Holds([before_ms |-> stamped_before_ms, after_ms |-> stamped_after_ms])
       /\ process_all_samples(
            [SubjectData(TRUE, TRUE, Holds(sampling_rate), "dict", samples)
               EXCEPT !.spike_waveform_params = spike_waveform_params],
            n_rms_multiplier, sampling_rate).samples = samples

\* process_all_samples returned a record with two samples, one holding raw
\* events and a waveform, the other without a signal
C27_Witness ==
  /\ ReturnedFromSamplesLoop
  /\ Len(samples) = 2
  /\ \E k \in 1..2 :
       /\ Analysed(k)
       /\ Len(RawOf(k)) > Len(FilteredOf(k))
       /\ \E i \in 1..Len(FilteredOf(k)) : "waveform" \in DOMAIN FilteredOf(k)[i]
  /\ \E k \in 1..2 : samples[k].spike_waveform_metadata = NoneVal

\* C28: no raw-detected event of a visited sample carries a waveform, and a
\* filtered event without a waveform is one of the raw-detected events as it
\* stands.
C28_RawEventsCarryNoWaveform ==
  \A k \in 1..si :
    Analysed(k) =>
      /\ \A i \in 1..Len(RawOf(k)) : "waveform" \notin DOMAIN RawOf(k)[i]
      /\ \A i \in 1..Len(FilteredOf(k)) :
           "waveform" \notin DOMAIN FilteredOf(k)[i] =>
             \E j \in 1..Len(RawOf(k)) : RawOf(k)[j] = FilteredOf(k)[i]

\* a visited sample with a filtered event that carries a waveform and a
\* filtered event that carries none
C28_Witness ==
  \E k \in 1..si :
    /\ Analysed(k)
    /\ Len(RawOf(k)) >= 2
    /\ \E i, j \in 1..Len(FilteredOf(k)) :
         /\ "waveform" \in DOMAIN FilteredOf(k)[i]
         /\ "waveform" \notin DOMAIN FilteredOf(k)[j]

\* ---- claims about the file names of the stages ----

\* C29: once the scoring stage has run, the detection result written for a
\* band-filtered input Subject_N_processed_300-3000Hz.json is the file the
\* scoring stage opened and updated: the name the detection stage wrote is
\* the name the scoring stage opens for that subject.
C29_ScoringOpensTheFileDetectionWrote ==
  pc = "scored" =>
    \A i \in Handled :
      LET file == processed_files[i]
      IN (file.filter_part = "300-3000Hz" /\ report[i] = "saved_spike_data") =>
           /\ DetectedFileName(file) = SpikesFileOf(file.base[2])
           /\ \E o \in DetectedOutputs(file) : o.updated

\* the input file was written to the output directory, whole or in part
WroteFile(i) ==
  /\ report[i] \in {"saved_original_data", "could_not_write_error_file",
                    "saved_spike_data", "serialization_error",
                    "could_not_write_spike_data"}
  /\ processed_files[i].write # "open_IOError"

\* the output path the input file was written to
WrittenPath(i) ==
  IF report[i] \in {"saved_original_data", "could_not_write_error_file"}
  THEN ErrorFileName(processed_files[i])
  ELSE DetectedFileName(processed_files[i])

\* C30: two distinct input files of one run are never written to the same
\* output path, on the detection path or on the missing-sampling-rate path.
C30_OneInputFilePerOutputPath ==
  \A i, j \in Handled :
    (i # j /\ WroteFile(i) /\ WroteFile(j)) => WrittenPath(i) # WrittenPath(j)
====
